---- MODULE Spec2Model ----
(***************************************************************************)
(* Model of the sharded token-bucket rate limiter of protokol              *)
(* (package ratelimit, src/middleware/auth/auth.go lines 210-492): the     *)
(* request path Middleware.Wrap / Middleware.allow, the background worker  *)
(* cleanupLoop / cleanup and Stop.                                         *)
(*                                                                         *)
(* Time is counted in clock ticks.  Token amounts (float64 in the source)  *)
(* are fixed-point integers: one token is TokenUnit units, the refill rate *)
(* is `rate` units per tick, so every value the arithmetic of allow can    *)
(* produce from whole-tick clock readings is represented exactly.          *)
(* Strings are sequences of byte values ("a" is <<97>>, "" is <<>>).       *)
(***************************************************************************)
EXTENDS Integers, Sequences, FiniteSets, TLC

\* ---- bounds of the model ------------------------------------------------
NumReq == 2
MaxTime == 2
MaxBurst == 2
MaxRate == 2
TokenUnit == 2
MaxCalls == 3
MaxChain == 3
MaxHdrLen == 2
MaxAddrLen == 3
NumRun == 2
NumAdapters == 1
NumBackends == 2
NumClose == 2
MaxReg == 3
MaxTokLen == 3

\* ---- program constants and configuration ---------------------------------
defaultShards == 32
\* low 16 bits of the FNV-1a 32-bit offset basis 2166136261 and prime 16777619
fnvOffset16 == 40389
fnvPrime16 == 403
\* WithCleanupInterval / WithMaxIdleTime, in ticks
cleanupInterval == 1
maxIdleTime == 1

Reqs == 1..NumReq
Cleaner == 0
NoOne == -1
Nil == 0
ShardIdx == 0..(defaultShards - 1)

\* the request inputs: Service is the only field the key extractor reads
Services == {<<>>, <<97>>, <<65>>}
Requests == [Service : Services, Method : {<<109>>}]
\* services of two shards ("a" and "A" hash to shard 12, "b" to shard 5) and none
ShardedServices == {<<>>, <<97>>, <<65>>, <<98>>}
ShardedRequests == [Service : ShardedServices, Method : {<<109>>}]

Min(x, y) == IF x <= y THEN x ELSE y

\* ---- pure functions -------------------------------------------------------
RECURSIVE Xor(_, _)
Xor(x, y) ==
  IF x = 0 THEN y
  ELSE IF y = 0 THEN x
  ELSE (((x % 2) + (y % 2)) % 2) + (2 * Xor(x \div 2, y \div 2))

\* hash/fnv New32a, Write, Sum32, reduced modulo 2^16: xor and multiplication
\* modulo 2^32 commute with reduction modulo 2^16, and len(m.shards) = 32
\* divides 2^16, so Sum32() % 32 is computed exactly.
RECURSIVE fnvWrite(_, _)
fnvWrite(h, bytes) ==
  IF bytes = <<>> THEN h
  ELSE fnvWrite((Xor(h, Head(bytes)) * fnvPrime16) % 65536, Tail(bytes))

Sum32lo(k) == fnvWrite(fnvOffset16, k)

\* a shard choice that ignores the bytes of the key
getShard_ByLength(k) == Len(k) % defaultShards

getShard(k) == Sum32lo(k) % defaultShards

ByService(q) == q.Service

keyFunc(q) == ByService(q)

\* the refill without the clamp to m.capacity
Refilled_NoClamp(tokens, el, rt, cap) == tokens + el * rt

\* b.tokens += elapsed * m.rate; if b.tokens > m.capacity { b.tokens = m.capacity }
Refilled(tokens, el, rt, cap) ==
  IF tokens + el * rt > cap THEN cap ELSE tokens + el * rt

\* if b.tokens < 1 { return false }
Admits(tokens) == ~(tokens < TokenUnit)

\* an admission that forgets the debit
Debit_Lost(tokens) == tokens

\* b.tokens--
Debit(tokens) == tokens - TokenUnit

\* a comparison that never finds a bucket idle
Before_Never(t, c) == FALSE

\* b.lastUsed.Before(cutoff)
Before(t, c) == t < c

\* ---- ByIP -----------------------------------------------------------------------
\* strings over a small alphabet, up to n bytes
StringsOver(alphabet, n) == UNION {[1..k -> alphabet] : k \in 0..n}

\* header values: "1", comma, space, tab; and the value "1.2.3.4, 5.6.7.8"
xffScenario == <<49, 46, 50, 46, 51, 46, 52, 44, 32, 53, 46, 54, 46, 55, 46, 56>>
HeaderValues == StringsOver({49, 44, 32, 9}, MaxHdrLen) \cup {xffScenario}

\* what Metadata holds under one header name: no value, one value, or two
\* values the first of which is empty
HeaderLists == {<<>>} \cup {<<v>> : v \in HeaderValues} \cup {<<<<>>, <<50>>>>}

\* Request.Metadata restricted to the two headers ByIP reads; a header may be
\* absent from the map
Metadatas ==
  UNION {[names -> HeaderLists] : names \in SUBSET {"X-Forwarded-For", "X-Real-Ip"}}

\* Request.RemoteAddr: "1", colon, space (no brackets: IPv4 style addresses)
RemoteAddrs == StringsOver({49, 58, 32}, MaxAddrLen)

IPRequests == [Metadata : Metadatas, RemoteAddr : RemoteAddrs]

\* unicode.IsSpace on the ASCII range
IsSpace(c) == c \in {9, 10, 11, 12, 13, 32}

RECURSIVE TrimLeft(_)
TrimLeft(str) ==
  IF str # <<>> /\ IsSpace(Head(str)) THEN TrimLeft(Tail(str)) ELSE str

RECURSIVE TrimRight(_)
TrimRight(str) ==
  IF str # <<>> /\ IsSpace(str[Len(str)]) THEN TrimRight(SubSeq(str, 1, Len(str) - 1)) ELSE str

\* a TrimSpace that leaves the string as it is
TrimSpace_None(str) == str

\* strings.TrimSpace
TrimSpace(str) == TrimRight(TrimLeft(str))

\* strings.Split(str, sep)[0]: the bytes before the first sep
RECURSIVE SplitFirst(_, _)
SplitFirst(str, sep) ==
  IF str = <<>> \/ Head(str) = sep THEN <<>>
  ELSE <<Head(str)>> \o SplitFirst(Tail(str), sep)

\* the index of the last byte c of str, 0 when there is none
LastIndexByte(str, c) ==
  IF \E i \in 1..Len(str) : str[i] = c
    THEN CHOOSE i \in 1..Len(str) : str[i] = c /\ \A j \in (i + 1)..Len(str) : str[j] # c
    ELSE 0

\* net.SplitHostPort on an address without brackets: the port starts after
\* the last colon; "missing port in address" without a colon, "too many
\* colons in address" when the host holds another one
SplitHostPort(hostport) ==
  LET i == LastIndexByte(hostport, 58)
      host == SubSeq(hostport, 1, i - 1)
  IN IF i = 0 THEN [host |-> <<>>, err |-> TRUE]
     ELSE IF LastIndexByte(host, 58) # 0 THEN [host |-> <<>>, err |-> TRUE]
     ELSE [host |-> host, err |-> FALSE]

\* xff, ok := req.Metadata[name]; ok && len(xff) > 0
HasValue(q, name) == name \in DOMAIN q.Metadata /\ Len(q.Metadata[name]) > 0

ByIP(q) ==
  LET ip1 == TrimSpace(SplitFirst(q.Metadata["X-Forwarded-For"][1], 44))
      ip2 == TrimSpace(q.Metadata["X-Real-Ip"][1])
  IN IF HasValue(q, "X-Forwarded-For") /\ ip1 # <<>> THEN ip1
     ELSE IF HasValue(q, "X-Real-Ip") /\ ip2 # <<>> THEN ip2
     ELSE IF q.RemoteAddr # <<>>
       THEN IF SplitHostPort(q.RemoteAddr).err THEN q.RemoteAddr
            ELSE SplitHostPort(q.RemoteAddr).host
     ELSE <<>>

\* ---- auth.Middleware ---------------------------------------------------------------
\* header values over "B", "b", space and "t"
AuthValues == StringsOver({66, 98, 32, 116}, MaxTokLen)

\* what Metadata holds under the header name: no value, one value, or two,
\* the second being "B t"
AuthLists == {<<>>} \cup {<<v>> : v \in AuthValues} \cup {<<v, <<66, 32, 116>>>> : v \in AuthValues}

\* Request.Metadata restricted to the header the middleware reads; the header
\* may be absent from the map
AuthMetadatas == UNION {[names -> AuthLists] : names \in SUBSET {"Authorization"}}

\* the default scheme, shortened to "B"; WithScheme("")
Bearer == <<66>>
Schemes == {Bearer, <<>>}

RECURSIVE HasPrefix(_, _)

\* a prefix test that accepts every value
HasPrefix_Any(str, prefix) == TRUE

\* strings.HasPrefix(s, prefix)
HasPrefix(str, prefix) ==
  IF prefix = <<>> THEN TRUE
  ELSE IF str = <<>> THEN FALSE
  ELSE Head(str) = Head(prefix) /\ HasPrefix(Tail(str), Tail(prefix))

\* strings.TrimPrefix(s, prefix)
TrimPrefix(str, prefix) ==
  IF HasPrefix(str, prefix) THEN SubSeq(str, Len(prefix) + 1, Len(str)) ELSE str

\* values, ok := req.Metadata[m.headerName]; !ok || len(values) == 0
NoToken(md) == "Authorization" \notin DOMAIN md \/ Len(md["Authorization"]) = 0

\* prefix := m.scheme + " "
SchemePrefix(sch) == sch \o <<32>>

\* the handler of auth.Middleware.Wrap: its error, the tokens it hands to
\* Validate and whether it calls next.Handle, whose results it then returns
authHandle(md, sch, v, n) ==
  IF NoToken(md)
    THEN [err |-> "ErrMissingToken", resp |-> "nil", validated |-> <<>>, forwarded |-> FALSE]
  ELSE IF sch # <<>> /\ ~HasPrefix(md["Authorization"][1], SchemePrefix(sch))
    THEN [err |-> "ErrInvalidToken", resp |-> "nil", validated |-> <<>>, forwarded |-> FALSE]
  ELSE LET token == IF sch # <<>>
                      THEN TrimPrefix(md["Authorization"][1], SchemePrefix(sch))
                      ELSE md["Authorization"][1]
       IN IF v = "err"
            THEN [err |-> "ErrUnauthorized", resp |-> "nil", validated |-> <<token>>,
                  forwarded |-> FALSE]
            ELSE [err |-> IF n = "ok" THEN "nil" ELSE "backendErr",
                  resp |-> IF n = "ok" THEN "resp" ELSE "nil",
                  validated |-> <<token>>, forwarded |-> TRUE]

\* ---- the middleware chain (package adapters) ----------------------------------
\* the Middleware implementations of the repository
Kinds == {"recover", "logging", "auth", "ratelimit"}

\* the middleware lists handed to Chain
Chains == UNION {[1..n -> Kinds] : n \in 0..MaxChain}

\* what one request brings to the chain: the Authorization metadata, the
\* outcome of the validator, the decision of the rate limiter's allow, the
\* request body, and what the backend does
ChainInputs ==
  [token : {"missing", "badscheme", "bearer"},
   valid : {"ok", "err", "panic"},
   allow : BOOLEAN,
   body : {"ok", "badjson"},
   base : {"ok", "err", "panic", "nobackend"}]

\* a handler's outcome: its two results, or a panic unwinding through it
Returned(resp, err) == [panic |-> FALSE, resp |-> resp, err |-> err]
Panicked == [panic |-> TRUE, resp |-> "none", err |-> "none"]

\* the observable steps of a request: an interceptor or the terminal handler
\* is entered, the backend is called, an interceptor returns err
EvIn(m) == [ev |-> "in", mw |-> m, err |-> "-"]
EvCall == [ev |-> "call", mw |-> "backend", err |-> "-"]
EvOut(m, o) == [ev |-> "out", mw |-> m, err |-> o.err]

\* the terminal handler of makeHandler, a Handler that wraps nothing
baseHandler == <<"handler">>

\* a Wrap that drops the middleware and returns next itself
Wrap_Drop(m, next) == next

\* m.Wrap(next): the closure of m over next, a handler whose first layer is m
Wrap(m, next) == <<m>> \o next

\* a loop that wraps from the first middleware to the last
RECURSIVE ChainLoop_Forward(_, _, _)
ChainLoop_Forward(h, middleware, i) ==
  IF i < 0 THEN h
  ELSE ChainLoop_Forward(Wrap(middleware[Len(middleware) - i], h), middleware, i - 1)

\* for i := len(middleware) - 1; i >= 0; i-- { h = middleware[i].Wrap(h) }
\* (Go indexes from 0, the sequence from 1)
RECURSIVE ChainLoop(_, _, _)
ChainLoop(h, middleware, i) ==
  IF i < 0 THEN h
  ELSE ChainLoop(Wrap(middleware[i + 1], h), middleware, i - 1)

Chain(h, middleware) == ChainLoop(h, middleware, Len(middleware) - 1)

\* the terminal handler: Backends.Get, then backend.Call
HandleBase(in) ==
  IF in.base = "nobackend"
    THEN [out |-> Returned("nil", "ErrBackendNotFound"), trace |-> <<EvIn("handler")>>]
    ELSE [out |-> CASE in.base = "ok" -> Returned("resp", "nil")
                    [] in.base = "err" -> Returned("nil", "backendErr")
                    [] in.base = "panic" -> Panicked,
          trace |-> <<EvIn("handler"), EvCall>>]

\* auth.Middleware.Wrap before next.Handle: the error it returns, "panic" when
\* the validator panics, "nil" when it goes on to next
authRefusal(in) ==
  IF in.token = "missing" THEN "ErrMissingToken"
  ELSE IF in.token = "badscheme" THEN "ErrInvalidToken"
  ELSE IF in.valid = "err" THEN "ErrUnauthorized"
  ELSE IF in.valid = "panic" THEN "panic"
  ELSE "nil"

\* a rate limiter that forwards the requests it rejects
ratelimitRefusal_Forwards(in) == "nil"

\* ratelimit.Middleware.Wrap before next.Handle: if !m.allow(key) { return nil, ErrRateLimited }
ratelimitRefusal(in) == IF in.allow THEN "nil" ELSE "ErrRateLimited"

\* what interceptor m does instead of forwarding: "nil" when it forwards
Refusal(m, in) ==
  CASE m = "auth" -> authRefusal(in)
    [] m = "ratelimit" -> ratelimitRefusal(in)
    [] OTHER -> "nil"

\* a recover middleware whose deferred function does not call recover()
Recovers_Never(m) == FALSE

\* the deferred function of recover.Middleware.Wrap: if r := recover(); r != nil
Recovers(m) == m = "recover"

\* h.Handle(ctx, req): the outcome and the observable steps, layer by layer.
\* A layer that refuses returns its error without calling next; a panic of
\* next unwinds through a layer without running the rest of its code, except
\* in recover, which turns it into (nil, ErrPanic).
RECURSIVE Handle(_, _)
Handle(h, in) ==
  LET m == Head(h)
      next == Tail(h)
  IN IF m = "handler" THEN HandleBase(in)
     ELSE IF Refusal(m, in) = "panic"
       THEN [out |-> Panicked, trace |-> <<EvIn(m)>>]
     ELSE IF Refusal(m, in) # "nil"
       THEN [out |-> Returned("nil", Refusal(m, in)),
             trace |-> <<EvIn(m), EvOut(m, Returned("nil", Refusal(m, in)))>>]
     ELSE LET r == Handle(next, in)
          IN IF ~r.out.panic
               THEN [out |-> r.out, trace |-> <<EvIn(m)>> \o r.trace \o <<EvOut(m, r.out)>>]
             ELSE IF Recovers(m)
               THEN [out |-> Returned("nil", "ErrPanic"),
                     trace |-> <<EvIn(m)>> \o r.trace \o <<EvOut(m, Returned("nil", "ErrPanic"))>>]
             ELSE [out |-> r.out, trace |-> <<EvIn(m)>> \o r.trace]

\* an errorStatus that answers every error with 500
errorStatus_All500(err) == 500

\* Adapter.errorStatus
errorStatus(err) ==
  CASE err = "ErrBackendNotFound" -> 500
    [] err \in {"ErrUnauthorized", "ErrInvalidToken", "ErrMissingToken"} -> 401
    [] err = "ErrRateLimited" -> 429
    [] OTHER -> 500

VARIABLES
  rate, capacity,            \* Middleware.rate, Middleware.capacity (units)
  clock,                     \* time.Now()
  tickReady,                 \* a tick is buffered in ticker.C
  tickerStopped,             \* ticker.Stop() has run
  smu,                       \* shard.mu per shard: readers and writer
  buckets,                   \* shard.buckets per shard: key -> bucket pointer
  heap,                      \* the bucket objects, by pointer
  pc, req, key, now, b, allowed, calls, hret, ret,   \* one worker per request
  cpc, cutoff, si, toDelete, scanned, di,     \* the cleanup goroutine
  stopCleanup, cleanupDone,  \* the two channels: TRUE when closed
  spc,                       \* the caller of Stop
  hist,                      \* history of each bucket: its key, its creation time and
                             \* the checks it served at its latest instant
  log,                       \* history of the calls a sequential caller has completed
  mws,                       \* Config.Middleware of the REST adapter
  csplit,                    \* how many of them the outer Chain call was given
  chandler,                  \* the handler makeHandler built
  chpc,                      \* the adapter: "new", "built", "served"
  cin,                       \* the inputs of the request it served
  cout, ctrace,              \* outcome and observable steps of handler.Handle
  status,                    \* the HTTP status written
  ipreq, ipkey, ippc,        \* a call of ByIP: its request, its result, "call" or "done"
  running, pmu,              \* Protokol.running, Protokol.mu (its holder)
  rpc, rret, rsel,           \* each caller of Run: position, result, select branch taken
  gor, errCh, ctxDone,       \* its adapter goroutines, its errCh, its ctx
  nstart, nstop, nclose,     \* calls of adapter.Start, adapter.Stop, backends.Close
  rbackends, rmu,            \* BackendRegistry.backends (name -> backend), BackendRegistry.mu
  nreg,                      \* calls of Register so far
  clpc, clorder, clret,      \* each caller of Close: position, backends closed in the
                             \* order of the range loop, result
  gpc, gname, gok,           \* the caller of Get: position, name, the ok it got
  closed,                    \* per backend: how often its Close was invoked
  ameta, ascheme,            \* the request's Metadata; auth.Middleware.scheme
  avalid, anext,             \* what the validator and the next handler do
  apc, aret,                 \* the call of the auth handler: position, results
  avcalls, ancalls           \* the tokens handed to Validate; the calls of next.Handle

vars == <<rate, capacity, clock, tickReady, tickerStopped, smu, buckets, heap,
          pc, req, key, now, b, allowed, calls, hret, ret,
          cpc, cutoff, si, toDelete, scanned, di,
          stopCleanup, cleanupDone, spc, hist, log,
          mws, csplit, chandler, chpc, cin, cout, ctrace, status,
          ipreq, ipkey, ippc,
          running, pmu, rpc, rret, rsel, gor, errCh, ctxDone, nstart, nstop, nclose,
          rbackends, rmu, nreg, clpc, clorder, clret, gpc, gname, gok, closed,
          ameta, ascheme, avalid, anext, apc, aret, avcalls, ancalls>>

limiterVars == <<rate, capacity>>
clockVars == <<clock, tickReady>>
reqVars == <<pc, req, key, now, b, allowed, calls, hret, ret>>
histVars == <<hist, log>>
cleanVars == <<cpc, cutoff, si, toDelete, scanned, di>>
stopVars == <<stopCleanup, cleanupDone, spc, tickerStopped>>
chainVars == <<mws, csplit, chandler, chpc, cin, cout, ctrace, status>>
keyVars == <<ipreq, ipkey, ippc>>
runVars == <<running, pmu, rpc, rret, rsel, gor, errCh, ctxDone, nstart, nstop, nclose>>
regVars == <<rbackends, rmu, nreg, clpc, clorder, clret, gpc, gname, gok, closed>>
authVars == <<ameta, ascheme, avalid, anext, apc, aret, avcalls, ancalls>>

NoRet == [resp |-> "none", err |-> "none"]
\* a rejection that returns no error
RateLimitedRet_NoErr == [resp |-> "nil", err |-> "nil"]

\* return nil, ErrRateLimited
RateLimitedRet == [resp |-> "nil", err |-> "ErrRateLimited"]
\* what the next handler may return
HandlerRets == {[resp |-> "resp", err |-> "nil"], [resp |-> "nil", err |-> "backendErr"]}


NoInput == [token |-> "missing", valid |-> "ok", allow |-> TRUE, body |-> "ok", base |-> "ok"]

\* the adapter before makeHandler, with Config.Middleware = ms
AdapterInit(ms) ==
  /\ mws = ms
  /\ csplit = 0
  /\ chandler = <<>>
  /\ chpc = "new"
  /\ cin = NoInput
  /\ cout = Returned("none", "none")
  /\ ctrace = <<>>
  /\ status = 0

\* New(requestsPerSecond, burst, keyFunc, opts...)
LimiterInit ==
  /\ rate \in 1..MaxRate
  /\ capacity \in {bu * TokenUnit : bu \in 1..MaxBurst}
  /\ clock = 0
  /\ tickReady = FALSE
  /\ tickerStopped = FALSE
  /\ smu = [i \in ShardIdx |-> [readers |-> {}, writer |-> NoOne]]
  /\ buckets = [i \in ShardIdx |-> <<>>]
  /\ heap = <<>>
  /\ pc = [r \in Reqs |-> "idle"]
  /\ req = [r \in Reqs |-> [Service |-> <<>>, Method |-> <<109>>]]
  /\ key = [r \in Reqs |-> <<>>]
  /\ now = [r \in Reqs |-> 0]
  /\ b = [r \in Reqs |-> Nil]
  /\ allowed = [r \in Reqs |-> FALSE]
  /\ calls = [r \in Reqs |-> <<>>]
  /\ hret = [r \in Reqs |-> NoRet]
  /\ ret = [r \in Reqs |-> NoRet]
  /\ cpc = "select"
  /\ cutoff = 0
  /\ si = 0
  /\ toDelete = <<>>
  /\ scanned = {}
  /\ di = 1
  /\ stopCleanup = FALSE
  /\ cleanupDone = FALSE
  /\ spc = "idle"
  /\ hist = <<>>
  /\ log = <<>>

\* a request on which ByIP is about to be called
KeyInit(q) ==
  /\ ipreq = q
  /\ ipkey = <<>>
  /\ ippc = "call"

NoIPRequest == [Metadata |-> <<>>, RemoteAddr |-> <<>>]

Runners == 1..NumRun
Adapters == 1..NumAdapters

\* protokol.New() and AddAdapter for each adapter; every caller is about to
\* call Run
RunInit ==
  /\ running = FALSE
  /\ pmu = NoOne
  /\ rpc = [c \in Runners |-> "call"]
  /\ rret = [c \in Runners |-> "none"]
  /\ rsel = [c \in Runners |-> "none"]
  /\ gor = [c \in Runners |-> [a \in Adapters |-> "none"]]
  /\ errCh = [c \in Runners |-> <<>>]
  /\ ctxDone = [c \in Runners |-> FALSE]
  /\ nstart = [a \in Adapters |-> 0]
  /\ nstop = [a \in Adapters |-> 0]
  /\ nclose = 0

BackendNames == 1..NumBackends
Closers == 1..NumClose

\* a backend: the name it was registered under identifies it; err is what its
\* Close returns
Backends == [id : BackendNames, err : {"nil", "closeErr"}]

\* NewBackendRegistry()
RegistryInit ==
  /\ rbackends = <<>>
  /\ rmu = [readers |-> {}, writer |-> NoOne]
  /\ nreg = 0
  /\ clpc = [c \in Closers |-> "call"]
  /\ clorder = [c \in Closers |-> <<>>]
  /\ clret = [c \in Closers |-> "none"]
  /\ gpc = "call"
  /\ gname = 1
  /\ gok = FALSE
  /\ closed = [n \in BackendNames |-> 0]

\* auth.New(validator, WithScheme(sch)) and a request with Metadata md on
\* which the handler of Wrap(next) is about to be called
AuthInit(md, sch, v, n) ==
  /\ ameta = md
  /\ ascheme = sch
  /\ avalid = v
  /\ anext = n
  /\ apc = "call"
  /\ aret = NoRet
  /\ avcalls = <<>>
  /\ ancalls = <<>>

NoAuth == AuthInit(<<>>, Bearer, "ok", "ok")

\* the limiter alone: no adapter is configured
Init == LimiterInit /\ AdapterInit(<<>>) /\ KeyInit(NoIPRequest) /\ RunInit /\ RegistryInit /\ NoAuth

\* ---- helpers on the state -------------------------------------------------
Shard(r) == getShard(key[r])

\* the caller's context of request r
CallerCtx(r) == [id |-> r]

\* the arguments Wrap hands to next.Handle
ForwardArgs(c, q) == [ctx |-> c, req |-> q]

\* a Wrap that swallows the error of next.Handle
WrapResult_Swallow(out) == [resp |-> out.resp, err |-> "nil"]

\* what Wrap returns when next.Handle returned out
WrapResult(out) == out

\* a bucket that starts empty
NewBucket_Empty(cap, t) == [mu |-> NoOne, tokens |-> 0, lastCheck |-> t, lastUsed |-> t]

\* &bucket{tokens: m.capacity, lastCheck: now, lastUsed: now}
NewBucket(cap, t) == [mu |-> NoOne, tokens |-> cap, lastCheck |-> t, lastUsed |-> t]

\* the pointer of the next bucket to be allocated
NewPtr == Cardinality(DOMAIN heap) + 1

\* a lookup that ignores the key and returns any bucket of the shard
MapLookup_AnyKey(m, k) == IF DOMAIN m # {} THEN m[CHOOSE x \in DOMAIN m : TRUE] ELSE Nil

\* b, ok := s.buckets[key]: the pointer, nil when the key is absent
MapLookup(m, k) == IF k \in DOMAIN m THEN m[k] ELSE Nil

\* a Wrap without the bypass of the empty key
Bypasses_Never(k) == FALSE

\* if key == "" { return next.Handle(ctx, req) }
Bypasses(k) == k = <<>>

\* delete(s.buckets, key)
MapDelete(m, k) == [x \in (DOMAIN m) \ {k} |-> m[x]]

\* ---- the request path: Wrap and allow ------------------------------------
\* A request arrives: key := m.keyFunc(req); an empty key goes straight to
\* next.Handle; otherwise allow starts: s := m.getShard(key); now := time.Now().
\* Workers are interchangeable, so they are started in index order.
Wrap_From(r, Q) ==
  /\ pc[r] = "idle"
  /\ IF r = 1 THEN TRUE ELSE pc[r - 1] # "idle"
  /\ \E q \in Q :
       /\ req' = [req EXCEPT ![r] = q]
       /\ key' = [key EXCEPT ![r] = keyFunc(q)]
       /\ IF Bypasses(keyFunc(q))
            THEN /\ pc' = [pc EXCEPT ![r] = "bypass"]
                 /\ now' = now
            ELSE /\ pc' = [pc EXCEPT ![r] = "rlock"]
                 /\ now' = [now EXCEPT ![r] = clock]
  /\ UNCHANGED <<limiterVars, regVars, authVars, chainVars, keyVars, runVars, clockVars, smu, buckets, heap, b, allowed, calls, hret,
                 ret, cleanVars, stopVars, histVars>>

\* a request of the traffic the limiter is checked under
Wrap_Enter(r) == Wrap_From(r, Requests)

\* a request of traffic whose keys fall into more than one shard
Wrap_EnterSharded(r) == Wrap_From(r, ShardedRequests)

\* s.mu.RLock()
allow_RLock(r) ==
  /\ pc[r] = "rlock"
  /\ smu[Shard(r)].writer = NoOne
  /\ smu' = [smu EXCEPT ![Shard(r)].readers = @ \cup {r}]
  /\ pc' = [pc EXCEPT ![r] = "lookup"]
  /\ UNCHANGED <<limiterVars, regVars, authVars, chainVars, keyVars, runVars, clockVars, buckets, heap, req, key, now, b, allowed,
                 calls, hret, ret, cleanVars, stopVars, histVars>>

\* a lookup that sends every request to the creation block
allow_Lookup_AlwaysWLock(r) ==
  /\ pc[r] = "lookup"
  /\ smu' = [smu EXCEPT ![Shard(r)].readers = @ \ {r}]
  /\ b' = [b EXCEPT ![r] = MapLookup(buckets[Shard(r)], key[r])]
  /\ pc' = [pc EXCEPT ![r] = "wlock"]
  /\ UNCHANGED <<limiterVars, regVars, authVars, chainVars, keyVars, runVars, clockVars, buckets, heap, req, key, now, allowed,
                 calls, hret, ret, cleanVars, stopVars, histVars>>

\* a lookup that returns with the read lock still held
allow_Lookup_NoRUnlock(r) ==
  /\ pc[r] = "lookup"
  /\ b' = [b EXCEPT ![r] = MapLookup(buckets[Shard(r)], key[r])]
  /\ pc' = [pc EXCEPT ![r] = IF MapLookup(buckets[Shard(r)], key[r]) # Nil
                               THEN "block" ELSE "wlock"]
  /\ UNCHANGED <<limiterVars, regVars, authVars, chainVars, keyVars, runVars, clockVars, smu, buckets, heap, req, key, now, allowed,
                 calls, hret, ret, cleanVars, stopVars, histVars>>

\* b, ok := s.buckets[key]; s.mu.RUnlock()
allow_Lookup(r) ==
  /\ pc[r] = "lookup"
  /\ smu' = [smu EXCEPT ![Shard(r)].readers = @ \ {r}]
  /\ b' = [b EXCEPT ![r] = MapLookup(buckets[Shard(r)], key[r])]
  /\ pc' = [pc EXCEPT ![r] = IF MapLookup(buckets[Shard(r)], key[r]) # Nil
                               THEN "block" ELSE "wlock"]
  /\ UNCHANGED <<limiterVars, regVars, authVars, chainVars, keyVars, runVars, clockVars, buckets, heap, req, key, now, allowed,
                 calls, hret, ret, cleanVars, stopVars, histVars>>

\* if !ok { s.mu.Lock()
allow_WLock(r) ==
  /\ pc[r] = "wlock"
  /\ smu[Shard(r)].writer = NoOne
  /\ smu[Shard(r)].readers = {}
  /\ smu' = [smu EXCEPT ![Shard(r)].writer = r]
  /\ pc' = [pc EXCEPT ![r] = "create"]
  /\ UNCHANGED <<limiterVars, regVars, authVars, chainVars, keyVars, runVars, clockVars, buckets, heap, req, key, now, b, allowed,
                 calls, hret, ret, cleanVars, stopVars, histVars>>

\* the other requests that found the key of r absent under the read lock and
\* have yet to make their re-check
Waiting(r) == {x \in Reqs \ {r} : key[x] = key[r] /\ pc[x] \in {"wlock", "create"}}

\* a creation that skips the re-check and always inserts a fresh bucket
allow_Create_NoRecheck(r) ==
  /\ pc[r] = "create"
  /\ b' = [b EXCEPT ![r] = NewPtr]
  /\ heap' = (NewPtr :> NewBucket(capacity, now[r])) @@ heap
  /\ buckets' = [buckets EXCEPT ![Shard(r)] = (key[r] :> NewPtr) @@ @]
  /\ hist' = (NewPtr :> [key |-> key[r], born |-> now[r], at |-> now[r],
                         T |-> capacity, n |-> 0, adm |-> 0,
                         lost |-> Waiting(r)]) @@ hist
  /\ smu' = [smu EXCEPT ![Shard(r)].writer = NoOne]
  /\ pc' = [pc EXCEPT ![r] = "block"]
  /\ UNCHANGED <<limiterVars, regVars, authVars, chainVars, keyVars, runVars, clockVars, req, key, now, allowed, calls, hret, ret,
                 cleanVars, stopVars, log>>

\* b, ok = s.buckets[key]; if !ok { b = &bucket{...}; s.buckets[key] = b }
\* s.mu.Unlock() }
allow_Create(r) ==
  /\ pc[r] = "create"
  /\ IF MapLookup(buckets[Shard(r)], key[r]) # Nil
       THEN /\ b' = [b EXCEPT ![r] = MapLookup(buckets[Shard(r)], key[r])]
            /\ UNCHANGED <<heap, buckets, hist>>
       ELSE /\ b' = [b EXCEPT ![r] = NewPtr]
            /\ heap' = (NewPtr :> NewBucket(capacity, now[r])) @@ heap
            /\ buckets' = [buckets EXCEPT ![Shard(r)] = (key[r] :> NewPtr) @@ @]
            /\ hist' = (NewPtr :> [key |-> key[r], born |-> now[r], at |-> now[r],
                                   T |-> capacity, n |-> 0, adm |-> 0,
                         lost |-> Waiting(r)]) @@ hist
  /\ smu' = [smu EXCEPT ![Shard(r)].writer = NoOne]
  /\ pc' = [pc EXCEPT ![r] = "block"]
  /\ UNCHANGED <<limiterVars, regVars, authVars, chainVars, keyVars, runVars, clockVars, req, key, now, allowed, calls, hret, ret,
                 cleanVars, stopVars, log>>

\* b.mu.Lock()
allow_BLock(r) ==
  /\ pc[r] = "block"
  /\ heap[b[r]].mu = NoOne
  /\ heap' = [heap EXCEPT ![b[r]].mu = r]
  /\ pc' = [pc EXCEPT ![r] = "check"]
  /\ UNCHANGED <<limiterVars, regVars, authVars, chainVars, keyVars, runVars, clockVars, smu, buckets, req, key, now, b, allowed,
                 calls, hret, ret, cleanVars, stopVars, histVars>>

\* a limiter that admits nothing once Stop has been called
allow_Check_ClosedAfterStop(r) ==
  /\ pc[r] = "check"
  /\ LET bk == heap[b[r]]
         elapsed == now[r] - bk.lastCheck
         t == Refilled(bk.tokens, elapsed, rate, capacity)
         yes == Admits(t) /\ ~stopCleanup
         h == IF hist[b[r]].n > 0 /\ hist[b[r]].at = now[r] THEN hist[b[r]]
              ELSE [hist[b[r]] EXCEPT !.at = now[r], !.T = t, !.n = 0, !.adm = 0]
     IN /\ heap' = [heap EXCEPT ![b[r]] =
                      [mu |-> NoOne,
                       tokens |-> IF yes THEN Debit(t) ELSE t,
                       lastCheck |-> now[r],
                       lastUsed |-> now[r]]]
        /\ allowed' = [allowed EXCEPT ![r] = yes]
        /\ hist' = [hist EXCEPT ![b[r]] =
                      [h EXCEPT !.n = @ + 1, !.adm = IF yes THEN @ + 1 ELSE @]]
  /\ pc' = [pc EXCEPT ![r] = "checked"]
  /\ UNCHANGED <<limiterVars, regVars, authVars, chainVars, keyVars, runVars, clockVars, smu, buckets, req, key, now, b, calls, hret,
                 ret, cleanVars, stopVars, log>>

\* a critical section that returns with the bucket lock still held
allow_Check_NoUnlock(r) ==
  /\ pc[r] = "check"
  /\ LET bk == heap[b[r]]
         elapsed == now[r] - bk.lastCheck
         t == Refilled(bk.tokens, elapsed, rate, capacity)
         yes == Admits(t)
         h == IF hist[b[r]].n > 0 /\ hist[b[r]].at = now[r] THEN hist[b[r]]
              ELSE [hist[b[r]] EXCEPT !.at = now[r], !.T = t, !.n = 0, !.adm = 0]
     IN /\ heap' = [heap EXCEPT ![b[r]] =
                      [mu |-> r,
                       tokens |-> IF yes THEN Debit(t) ELSE t,
                       lastCheck |-> now[r],
                       lastUsed |-> now[r]]]
        /\ allowed' = [allowed EXCEPT ![r] = yes]
        /\ hist' = [hist EXCEPT ![b[r]] =
                      [h EXCEPT !.n = @ + 1, !.adm = IF yes THEN @ + 1 ELSE @]]
  /\ pc' = [pc EXCEPT ![r] = "checked"]
  /\ UNCHANGED <<limiterVars, regVars, authVars, chainVars, keyVars, runVars, clockVars, smu, buckets, req, key, now, b, calls, hret,
                 ret, cleanVars, stopVars, log>>

\* The critical section of allow and the deferred b.mu.Unlock():
\*   elapsed := now.Sub(b.lastCheck).Seconds(); b.tokens += elapsed * m.rate
\*   if b.tokens > m.capacity { b.tokens = m.capacity }
\*   b.lastCheck = now; b.lastUsed = now
\*   if b.tokens < 1 { return false }; b.tokens--; return true
\* Every other access to the bucket takes b.mu, so the section is one step.
\* hist counts the checks the bucket serves at one instant (elapsed = 0 since
\* the previous check) and keeps the tokens T the first of them found after
\* its refill.
allow_Check(r) ==
  /\ pc[r] = "check"
  /\ LET bk == heap[b[r]]
         elapsed == now[r] - bk.lastCheck
         t == Refilled(bk.tokens, elapsed, rate, capacity)
         yes == Admits(t)
         h == IF hist[b[r]].n > 0 /\ hist[b[r]].at = now[r] THEN hist[b[r]]
              ELSE [hist[b[r]] EXCEPT !.at = now[r], !.T = t, !.n = 0, !.adm = 0]
     IN /\ heap' = [heap EXCEPT ![b[r]] =
                      [mu |-> NoOne,
                       tokens |-> IF yes THEN Debit(t) ELSE t,
                       lastCheck |-> now[r],
                       lastUsed |-> now[r]]]
        /\ allowed' = [allowed EXCEPT ![r] = yes]
        /\ hist' = [hist EXCEPT ![b[r]] =
                      [h EXCEPT !.n = @ + 1, !.adm = IF yes THEN @ + 1 ELSE @]]
  /\ pc' = [pc EXCEPT ![r] = "checked"]
  /\ UNCHANGED <<limiterVars, regVars, authVars, chainVars, keyVars, runVars, clockVars, smu, buckets, req, key, now, b, calls, hret,
                 ret, cleanVars, stopVars, log>>

\* a rejection that also drops the bucket of the rejected key
Wrap_Reject_Drops(r) ==
  /\ pc[r] = "checked"
  /\ ~allowed[r]
  /\ ret' = [ret EXCEPT ![r] = RateLimitedRet]
  /\ buckets' = [buckets EXCEPT ![Shard(r)] = MapDelete(@, key[r])]
  /\ pc' = [pc EXCEPT ![r] = "done"]
  /\ UNCHANGED <<limiterVars, regVars, authVars, chainVars, keyVars, runVars, clockVars, smu, heap, req, key, now, b,
                 allowed, calls, hret, cleanVars, stopVars, histVars>>

\* if !m.allow(key) { return nil, ErrRateLimited }
Wrap_Reject(r) ==
  /\ pc[r] = "checked"
  /\ ~allowed[r]
  /\ ret' = [ret EXCEPT ![r] = RateLimitedRet]
  /\ pc' = [pc EXCEPT ![r] = "done"]
  /\ UNCHANGED <<limiterVars, regVars, authVars, chainVars, keyVars, runVars, clockVars, smu, buckets, heap, req, key, now, b,
                 allowed, calls, hret, cleanVars, stopVars, histVars>>

\* return next.Handle(ctx, req): the call
Wrap_Forward(r) ==
  /\ \/ pc[r] = "bypass"
     \/ pc[r] = "checked" /\ allowed[r]
  /\ calls' = [calls EXCEPT ![r] = Append(@, ForwardArgs(CallerCtx(r), req[r]))]
  /\ pc' = [pc EXCEPT ![r] = "next"]
  /\ UNCHANGED <<limiterVars, regVars, authVars, chainVars, keyVars, runVars, clockVars, smu, buckets, heap, req, key, now, b,
                 allowed, hret, ret, cleanVars, stopVars, histVars>>

\* return next.Handle(ctx, req): the next handler returns (hret) and Wrap
\* returns its results
Handler_Return(r) ==
  /\ pc[r] = "next"
  /\ \E out \in HandlerRets :
       /\ hret' = [hret EXCEPT ![r] = out]
       /\ ret' = [ret EXCEPT ![r] = WrapResult(out)]
  /\ pc' = [pc EXCEPT ![r] = "done"]
  /\ UNCHANGED <<limiterVars, regVars, authVars, chainVars, keyVars, runVars, clockVars, smu, buckets, heap, req, key, now, b,
                 allowed, calls, cleanVars, stopVars, histVars>>

\* ---- the clock and the ticker ----------------------------------------------
\* Time passes; time.NewTicker(m.cleanupInterval) puts a tick in ticker.C
\* (capacity 1) every cleanupInterval until ticker.Stop().
Tick ==
  /\ clock < MaxTime
  /\ clock' = clock + 1
  /\ tickReady' = (tickReady \/ (~tickerStopped /\ (clock + 1) % cleanupInterval = 0))
  /\ UNCHANGED <<limiterVars, regVars, authVars, chainVars, keyVars, runVars, smu, buckets, heap, reqVars, cleanVars, stopVars, histVars>>

\* ---- the cleanup goroutine: cleanupLoop and cleanup -----------------------
\* case <-ticker.C: m.cleanup(), whose first statements are
\* now := time.Now(); cutoff := now.Add(-m.maxIdleTime)
Loop_Tick ==
  /\ cpc = "select"
  /\ tickReady
  /\ tickReady' = FALSE
  /\ cutoff' = clock - maxIdleTime
  /\ si' = 0
  /\ cpc' = "shard"
  /\ UNCHANGED <<limiterVars, regVars, authVars, chainVars, keyVars, runVars, clock, smu, buckets, heap, reqVars, toDelete, scanned,
                 di, stopVars, histVars>>

\* a cleanupLoop that returns without closing cleanupDone
Loop_Stop_NoSignal ==
  /\ cpc = "select"
  /\ stopCleanup
  /\ cpc' = "exited"
  /\ tickerStopped' = TRUE
  /\ cleanupDone' = cleanupDone
  /\ UNCHANGED <<limiterVars, regVars, authVars, chainVars, keyVars, runVars, clockVars, smu, buckets, heap, reqVars, cutoff, si,
                 toDelete, scanned, di, stopCleanup, spc, histVars>>

\* case <-m.stopCleanup: return, with the deferred ticker.Stop() and
\* close(m.cleanupDone)
Loop_Stop ==
  /\ cpc = "select"
  /\ stopCleanup
  /\ cpc' = "exited"
  /\ tickerStopped' = TRUE
  /\ cleanupDone' = TRUE
  /\ UNCHANGED <<limiterVars, regVars, authVars, chainVars, keyVars, runVars, clockVars, smu, buckets, heap, reqVars, cutoff, si,
                 toDelete, scanned, di, stopCleanup, spc, histVars>>

\* The scan of a shard whose map is empty and whose lock no writer holds
\* takes and releases the read lock and collects nothing; maps only grow
\* while the cleanup goroutine is between its own deletions, so a run of such
\* scans is taken in one step: the loop advances to the first shard from i on
\* that holds a bucket or is write-locked.
RECURSIVE NextBusy(_)
NextBusy(i) ==
  IF i >= defaultShards THEN defaultShards
  ELSE IF buckets[i] # <<>> \/ smu[i].writer # NoOne THEN i
  ELSE NextBusy(i + 1)

\* for _, s := range m.shards { var toDelete []string; s.mu.RLock()
cleanup_RLock ==
  /\ cpc = "shard"
  /\ NextBusy(si) < defaultShards
  /\ smu[NextBusy(si)].writer = NoOne
  /\ si' = NextBusy(si)
  /\ smu' = [smu EXCEPT ![NextBusy(si)].readers = @ \cup {Cleaner}]
  /\ toDelete' = <<>>
  /\ scanned' = {}
  /\ cpc' = "scan"
  /\ UNCHANGED <<limiterVars, regVars, authVars, chainVars, keyVars, runVars, clockVars, buckets, heap, reqVars, cutoff, di,
                 stopVars, histVars>>

\* the range over m.shards is exhausted: cleanup returns to the select
cleanup_Return ==
  /\ cpc = "shard"
  /\ NextBusy(si) = defaultShards
  /\ si' = 0
  /\ cpc' = "select"
  /\ UNCHANGED <<limiterVars, regVars, authVars, chainVars, keyVars, runVars, clockVars, smu, buckets, heap, reqVars, cutoff,
                 toDelete, scanned, di, stopVars, histVars>>

\* for key, b := range s.buckets { b.mu.Lock();
\*   if b.lastUsed.Before(cutoff) { toDelete = append(toDelete, key) }; b.mu.Unlock() }
\* one iteration; the map is ranged over in any order
cleanup_Scan ==
  /\ cpc = "scan"
  /\ \E k \in (DOMAIN buckets[si]) \ scanned :
       /\ heap[buckets[si][k]].mu = NoOne
       /\ toDelete' = IF Before(heap[buckets[si][k]].lastUsed, cutoff)
                        THEN Append(toDelete, k) ELSE toDelete
       /\ scanned' = scanned \cup {k}
  /\ UNCHANGED <<limiterVars, regVars, authVars, chainVars, keyVars, runVars, clockVars, smu, buckets, heap, reqVars, cpc, cutoff,
                 si, di, stopVars, histVars>>

\* s.mu.RUnlock(); if len(toDelete) > 0 { ... }
cleanup_RUnlock ==
  /\ cpc = "scan"
  /\ scanned = DOMAIN buckets[si]
  /\ smu' = [smu EXCEPT ![si].readers = @ \ {Cleaner}]
  /\ scanned' = {}
  /\ IF Len(toDelete) > 0
       THEN /\ cpc' = "wlock"
            /\ si' = si
       ELSE /\ cpc' = "shard"
            /\ si' = si + 1
  /\ UNCHANGED <<limiterVars, regVars, authVars, chainVars, keyVars, runVars, clockVars, buckets, heap, reqVars, cutoff, toDelete,
                 di, stopVars, histVars>>

\* s.mu.Lock()
cleanup_WLock ==
  /\ cpc = "wlock"
  /\ smu[si].writer = NoOne
  /\ smu[si].readers = {}
  /\ smu' = [smu EXCEPT ![si].writer = Cleaner]
  /\ di' = 1
  /\ cpc' = "delete"
  /\ UNCHANGED <<limiterVars, regVars, authVars, chainVars, keyVars, runVars, clockVars, buckets, heap, reqVars, cutoff, si,
                 toDelete, scanned, stopVars, histVars>>

\* if b, ok := s.buckets[key]; ok { b.mu.Lock();
\*   if b.lastUsed.Before(cutoff) { delete(s.buckets, key) }; b.mu.Unlock() }
\* a delete phase that does not look at lastUsed again
StillIdle_NoRecheck(bk, c) == TRUE

\* the decision of one iteration of the delete loop
StillIdle(bk, c) == Before(bk.lastUsed, c)

\* a deletion that does not take the lock of the bucket it re-checks
cleanup_Delete_NoBucketLock ==
  /\ cpc = "delete"
  /\ di <= Len(toDelete)
  /\ LET k == toDelete[di]
     IN IF k \in DOMAIN buckets[si]
          THEN /\ buckets' = IF StillIdle(heap[buckets[si][k]], cutoff)
                               THEN [buckets EXCEPT ![si] = MapDelete(@, k)]
                               ELSE buckets
          ELSE buckets' = buckets
  /\ di' = di + 1
  /\ UNCHANGED <<limiterVars, regVars, authVars, chainVars, keyVars, runVars, clockVars, smu, heap, reqVars, cpc, cutoff, si,
                 toDelete, scanned, stopVars, histVars>>

cleanup_Delete ==
  /\ cpc = "delete"
  /\ di <= Len(toDelete)
  /\ LET k == toDelete[di]
     IN IF k \in DOMAIN buckets[si]
          THEN /\ heap[buckets[si][k]].mu = NoOne
               /\ buckets' = IF StillIdle(heap[buckets[si][k]], cutoff)
                               THEN [buckets EXCEPT ![si] = MapDelete(@, k)]
                               ELSE buckets
          ELSE buckets' = buckets
  /\ di' = di + 1
  /\ UNCHANGED <<limiterVars, regVars, authVars, chainVars, keyVars, runVars, clockVars, smu, heap, reqVars, cpc, cutoff, si,
                 toDelete, scanned, stopVars, histVars>>

\* s.mu.Unlock() } and on to the next shard
cleanup_Unlock ==
  /\ cpc = "delete"
  /\ di > Len(toDelete)
  /\ smu' = [smu EXCEPT ![si].writer = NoOne]
  /\ toDelete' = <<>>
  /\ di' = 1
  /\ si' = si + 1
  /\ cpc' = "shard"
  /\ UNCHANGED <<limiterVars, regVars, authVars, chainVars, keyVars, runVars, clockVars, buckets, heap, reqVars, cutoff, scanned,
                 stopVars, histVars>>

\* ---- Stop -----------------------------------------------------------------
\* close(m.stopCleanup), by the shutdown path: the first call closes the
\* channel; a call on a limiter whose Stop has returned finds the channel
\* closed, and close of a closed channel panics
Stop_Close ==
  /\ spc \in {"idle", "returned"}
  /\ IF stopCleanup
       THEN /\ spc' = "panic"
            /\ stopCleanup' = stopCleanup
       ELSE /\ spc' = "wait"
            /\ stopCleanup' = TRUE
  /\ UNCHANGED <<limiterVars, regVars, authVars, chainVars, keyVars, runVars, clockVars, smu, buckets, heap, reqVars, cleanVars,
                 cleanupDone, tickerStopped, histVars>>

\* a Stop that does not wait for the worker
Stop_Wait_NoWait ==
  /\ spc = "wait"
  /\ spc' = "returned"
  /\ UNCHANGED <<limiterVars, regVars, authVars, chainVars, keyVars, runVars, clockVars, smu, buckets, heap, reqVars, cleanVars,
                 stopCleanup, cleanupDone, tickerStopped, histVars>>

\* <-m.cleanupDone
Stop_Wait ==
  /\ spc = "wait"
  /\ cleanupDone
  /\ spc' = "returned"
  /\ UNCHANGED <<limiterVars, regVars, authVars, chainVars, keyVars, runVars, clockVars, smu, buckets, heap, reqVars, cleanVars,
                 stopCleanup, cleanupDone, tickerStopped, histVars>>

Request(r) ==
  \/ Wrap_Enter(r)
  \/ allow_RLock(r)
  \/ allow_Lookup(r)
  \/ allow_WLock(r)
  \/ allow_Create(r)
  \/ allow_BLock(r)
  \/ allow_Check(r)
  \/ Wrap_Reject(r)
  \/ Wrap_Forward(r)
  \/ Handler_Return(r)

Cleanup ==
  \/ Loop_Tick
  \/ Loop_Stop
  \/ cleanup_RLock
  \/ cleanup_Return
  \/ cleanup_Scan
  \/ cleanup_RUnlock
  \/ cleanup_WLock
  \/ cleanup_Delete
  \/ cleanup_Unlock

Next ==
  \/ \E r \in Reqs : Request(r)
  \/ Cleanup
  \/ Stop_Close
  \/ Stop_Wait
  \/ Tick

Spec == Init /\ [][Next]_vars

\* ---- a single caller issuing its requests one after another -----------------
\* The caller of worker 1 records the finished call and issues the next one.
Caller_Again ==
  /\ pc[1] = "done"
  /\ Len(log) < MaxCalls - 1
  /\ log' = Append(log, [key |-> key[1], b |-> b[1], at |-> now[1], ok |-> allowed[1]])
  /\ pc' = [pc EXCEPT ![1] = "idle"]
  /\ req' = [req EXCEPT ![1] = [Service |-> <<>>, Method |-> <<109>>]]
  /\ key' = [key EXCEPT ![1] = <<>>]
  /\ now' = [now EXCEPT ![1] = 0]
  /\ b' = [b EXCEPT ![1] = Nil]
  /\ allowed' = [allowed EXCEPT ![1] = FALSE]
  /\ calls' = [calls EXCEPT ![1] = <<>>]
  /\ hret' = [hret EXCEPT ![1] = NoRet]
  /\ ret' = [ret EXCEPT ![1] = NoRet]
  /\ UNCHANGED <<limiterVars, regVars, authVars, chainVars, keyVars, runVars, clockVars, smu, buckets, heap, cleanVars, stopVars, hist>>

NextSeq ==
  \/ Request(1)
  \/ Caller_Again
  \/ Cleanup
  \/ Stop_Close
  \/ Stop_Wait
  \/ Tick

SpecSeq == Init /\ [][NextSeq]_vars

\* ---- the REST adapter: makeHandler ---------------------------------------------
\* handler = adapters.Chain(handler, a.config.Middleware...); a configuration
\* may also compose the list in two calls, Chain(Chain(h, B...), A...), with A
\* the first csplit middlewares and B the rest (csplit = Len(mws) is the
\* single call of makeHandler, B being empty)
Chain_Build ==
  /\ chpc = "new"
  /\ \E k \in 0..Len(mws) :
       /\ csplit' = k
       /\ chandler' = Chain(Chain(baseHandler, SubSeq(mws, k + 1, Len(mws))),
                            SubSeq(mws, 1, k))
  /\ chpc' = "built"
  /\ UNCHANGED <<limiterVars, regVars, authVars, keyVars, runVars, clockVars, smu, buckets, heap, reqVars,
                 cleanVars, stopVars, histVars, mws, cin, cout, ctrace, status>>

\* the http.HandlerFunc of makeHandler serves a request: a body that does not
\* decode is answered 400 before the chain is called; otherwise
\* resp, err := handler.Handle(ctx, req), and an error is answered with
\* errorStatus(err).  A panic that leaves the chain writes no status.
makeHandler_Serve ==
  /\ chpc = "built"
  /\ \E in \in ChainInputs :
       /\ cin' = in
       /\ IF in.body = "badjson"
            THEN /\ status' = 400
                 /\ UNCHANGED <<cout, ctrace>>
            ELSE LET r == Handle(chandler, in)
                 IN /\ cout' = r.out
                    /\ ctrace' = r.trace
                    /\ status' = IF r.out.panic THEN 0
                                 ELSE IF r.out.err # "nil" THEN errorStatus(r.out.err)
                                 ELSE 200
  /\ chpc' = "served"
  /\ UNCHANGED <<limiterVars, regVars, authVars, keyVars, runVars, clockVars, smu, buckets, heap, reqVars,
                 cleanVars, stopVars, histVars, mws, csplit, chandler>>

\* an adapter configured with any middleware list; the limiter is New(1, 1, ...)
InitChain ==
  /\ LimiterInit /\ rate = 1 /\ capacity = TokenUnit
  /\ \E ms \in Chains : AdapterInit(ms)
  /\ KeyInit(NoIPRequest)
  /\ RunInit
  /\ RegistryInit
  /\ NoAuth

NextChain ==
  \/ Chain_Build
  \/ makeHandler_Serve

SpecChain == InitChain /\ [][NextChain]_vars

\* ---- the key extractor ByIP ----------------------------------------------------
\* key := ByIP(req)
ByIP_Call ==
  /\ ippc = "call"
  /\ ipkey' = ByIP(ipreq)
  /\ ippc' = "done"
  /\ UNCHANGED <<limiterVars, regVars, authVars, chainVars, runVars, clockVars, smu, buckets, heap, reqVars,
                 cleanVars, stopVars, histVars, ipreq>>

InitKey ==
  /\ LimiterInit /\ rate = 1 /\ capacity = TokenUnit
  /\ AdapterInit(<<>>)
  /\ \E q \in IPRequests : KeyInit(q)
  /\ RunInit
  /\ RegistryInit
  /\ NoAuth

NextKey == ByIP_Call

SpecKey == InitKey /\ [][NextKey]_vars

\* ---- Protokol.Run and Protokol.Stop -------------------------------------------
otherVars == <<limiterVars, regVars, authVars, chainVars, keyVars, clockVars, smu, buckets, heap, reqVars,
               cleanVars, stopVars, histVars>>

\* p.mu.Lock()
Run_Lock(c) ==
  /\ rpc[c] = "call"
  /\ pmu = NoOne
  /\ pmu' = c
  /\ rpc' = [rpc EXCEPT ![c] = "locked"]
  /\ UNCHANGED <<otherVars, running, rret, rsel, gor, errCh, ctxDone, nstart, nstop, nclose>>

\* a Run that sets the flag without looking at it
Run_Check_NoFlag(c) ==
  /\ rpc[c] = "locked"
  /\ running' = TRUE
  /\ rpc' = [rpc EXCEPT ![c] = "spawn"]
  /\ pmu' = NoOne
  /\ UNCHANGED <<otherVars, rret, rsel, gor, errCh, ctxDone, nstart, nstop, nclose>>

\* if p.running { p.mu.Unlock(); return ErrAlreadyRunning }
\* p.running = true; p.mu.Unlock()
Run_Check(c) ==
  /\ rpc[c] = "locked"
  /\ IF running
       THEN /\ rret' = [rret EXCEPT ![c] = "ErrAlreadyRunning"]
            /\ rpc' = [rpc EXCEPT ![c] = "done"]
            /\ running' = running
       ELSE /\ running' = TRUE
            /\ rpc' = [rpc EXCEPT ![c] = "spawn"]
            /\ rret' = rret
  /\ pmu' = NoOne
  /\ UNCHANGED <<otherVars, rsel, gor, errCh, ctxDone, nstart, nstop, nclose>>

\* errCh := make(chan error, len(p.adapters))
\* for _, a := range p.adapters { go func(adapter Adapter) { ... }(a) }
Run_Spawn(c) ==
  /\ rpc[c] = "spawn"
  /\ gor' = [gor EXCEPT ![c] = [a \in Adapters |-> "ready"]]
  /\ errCh' = [errCh EXCEPT ![c] = <<>>]
  /\ rpc' = [rpc EXCEPT ![c] = "select"]
  /\ UNCHANGED <<otherVars, running, pmu, rret, rsel, ctxDone, nstart, nstop, nclose>>

\* the goroutine calls adapter.Start(ctx)
Adapter_Start(c, a) ==
  /\ gor[c][a] = "ready"
  /\ gor' = [gor EXCEPT ![c][a] = "in"]
  /\ nstart' = [nstart EXCEPT ![a] = @ + 1]
  /\ UNCHANGED <<otherVars, running, pmu, rpc, rret, rsel, errCh, ctxDone, nstop, nclose>>

\* adapter.Start returns, at once or after serving, and the goroutine sends
\* its result: errCh <- adapter.Start(ctx); the channel has room for all
Adapter_Return(c, a) ==
  /\ gor[c][a] = "in"
  /\ gor' = [gor EXCEPT ![c][a] = "out"]
  /\ \E err \in {"nil", "startErr"} : errCh' = [errCh EXCEPT ![c] = Append(@, err)]
  /\ UNCHANGED <<otherVars, running, pmu, rpc, rret, rsel, ctxDone, nstart, nstop, nclose>>

\* the context handed to Run is cancelled
Ctx_Cancel(c) ==
  /\ ~ctxDone[c]
  /\ ctxDone' = [ctxDone EXCEPT ![c] = TRUE]
  /\ UNCHANGED <<otherVars, running, pmu, rpc, rret, rsel, gor, errCh, nstart, nstop, nclose>>

\* select { case err := <-errCh: ...; case <-ctx.Done(): ... }
Run_Select(c) ==
  /\ rpc[c] = "select"
  /\ \/ /\ errCh[c] # <<>>
        /\ rsel' = [rsel EXCEPT ![c] = "err"]
        /\ rret' = [rret EXCEPT ![c] = Head(errCh[c])]
        /\ errCh' = [errCh EXCEPT ![c] = Tail(@)]
     \/ /\ ctxDone[c]
        /\ rsel' = [rsel EXCEPT ![c] = "ctx"]
        /\ UNCHANGED <<rret, errCh>>
  /\ rpc' = [rpc EXCEPT ![c] = "stop"]
  /\ UNCHANGED <<otherVars, running, pmu, gor, ctxDone, nstart, nstop, nclose>>

\* p.Stop(context.Background()): p.mu.Lock()
PStop_Lock(c) ==
  /\ rpc[c] = "stop"
  /\ pmu = NoOne
  /\ pmu' = c
  /\ rpc' = [rpc EXCEPT ![c] = "stopping"]
  /\ UNCHANGED <<otherVars, running, rret, rsel, gor, errCh, ctxDone, nstart, nstop, nclose>>

\* a Stop that leaves the running flag as it is
PStop_Body_KeepsRunning(c) ==
  /\ rpc[c] = "stopping"
  /\ nstop' = [a \in Adapters |-> nstop[a] + 1]
  /\ nclose' = nclose + 1
  /\ running' = running
  /\ pmu' = NoOne
  /\ \E firstErr \in {"nil", "stopErr", "closeErr"} :
       rret' = [rret EXCEPT ![c] = IF rsel[c] = "ctx" THEN firstErr ELSE @]
  /\ rpc' = [rpc EXCEPT ![c] = "done"]
  /\ UNCHANGED <<otherVars, rsel, gor, errCh, ctxDone, nstart>>

\* the body of Stop: a.Stop(ctx) for every adapter, p.backends.Close(),
\* p.running = false, the deferred Unlock; Run returns err in the errCh case
\* and Stop's firstErr in the ctx.Done case
PStop_Body(c) ==
  /\ rpc[c] = "stopping"
  /\ nstop' = [a \in Adapters |-> nstop[a] + 1]
  /\ nclose' = nclose + 1
  /\ running' = FALSE
  /\ pmu' = NoOne
  /\ \E firstErr \in {"nil", "stopErr", "closeErr"} :
       rret' = [rret EXCEPT ![c] = IF rsel[c] = "ctx" THEN firstErr ELSE @]
  /\ rpc' = [rpc EXCEPT ![c] = "done"]
  /\ UNCHANGED <<otherVars, rsel, gor, errCh, ctxDone, nstart>>

RunCall(c) ==
  \/ Run_Lock(c)
  \/ Run_Check(c)
  \/ Run_Spawn(c)
  \/ Run_Select(c)
  \/ PStop_Lock(c)
  \/ PStop_Body(c)
  \/ Ctx_Cancel(c)
  \/ \E a \in Adapters : Adapter_Start(c, a) \/ Adapter_Return(c, a)

InitRun == Init /\ rate = 1 /\ capacity = TokenUnit

NextRun == \E c \in Runners : RunCall(c)

SpecRun == InitRun /\ [][NextRun]_vars

\* ---- BackendRegistry ------------------------------------------------------------
restVars == <<limiterVars, authVars, chainVars, keyVars, runVars, clockVars, smu, buckets, heap,
              reqVars, cleanVars, stopVars, histVars>>

\* Register(name, b): r.mu.Lock(); r.backends[name] = b; the deferred Unlock.
\* Nothing else happens under the lock, so the call is one step.
Register ==
  /\ nreg < MaxReg
  /\ rmu.writer = NoOne /\ rmu.readers = {}
  /\ \E bk \in Backends : rbackends' = (bk.id :> bk) @@ rbackends
  /\ nreg' = nreg + 1
  /\ UNCHANGED <<restVars, rmu, clpc, clorder, clret, gpc, gname, gok, closed>>

\* Get(name): r.mu.RLock()
Get_RLock ==
  /\ gpc = "call"
  /\ rmu.writer = NoOne
  /\ \E n \in BackendNames : gname' = n
  /\ rmu' = [rmu EXCEPT !.readers = @ \cup {0}]
  /\ gpc' = "locked"
  /\ UNCHANGED <<restVars, rbackends, nreg, clpc, clorder, clret, gok, closed>>

\* b, ok := r.backends[name]; return b, ok; the deferred RUnlock.  The caller
\* may call Get again.
Get_Return ==
  /\ gpc = "locked"
  /\ gok' = (gname \in DOMAIN rbackends)
  /\ rmu' = [rmu EXCEPT !.readers = @ \ {0}]
  /\ gpc' = "call"
  /\ UNCHANGED <<restVars, rbackends, nreg, clpc, clorder, clret, gname, closed>>

\* Close(): r.mu.Lock()
Close_Lock(c) ==
  /\ clpc[c] = "call"
  /\ rmu.writer = NoOne /\ rmu.readers = {}
  /\ rmu' = [rmu EXCEPT !.writer = c]
  /\ clpc' = [clpc EXCEPT ![c] = "range"]
  /\ UNCHANGED <<restVars, rbackends, nreg, clorder, clret, gpc, gname, gok, closed>>

\* for _, b := range r.backends { if err := b.Close(); ... }: one iteration,
\* the map being ranged over in any order
Close_Range(c) ==
  /\ clpc[c] = "range"
  /\ \E n \in (DOMAIN rbackends) \ {clorder[c][i].id : i \in 1..Len(clorder[c])} :
       /\ clorder' = [clorder EXCEPT ![c] = Append(@, rbackends[n])]
       /\ closed' = [closed EXCEPT ![n] = @ + 1]
  /\ UNCHANGED <<restVars, rbackends, rmu, nreg, clpc, clret, gpc, gname, gok>>

\* err != nil && firstErr == nil { firstErr = err }, over the iterations made
RECURSIVE FirstErr(_)
FirstErr(order) ==
  IF order = <<>> THEN "nil"
  ELSE IF Head(order).err # "nil" THEN <<Head(order).err, Head(order).id>>
  ELSE FirstErr(Tail(order))

\* a Close that leaves the map as it is
Cleared_Kept(m) == m

\* clear(r.backends)
Cleared(m) == <<>>

\* the loop is over: clear(r.backends); return firstErr; the deferred Unlock
Close_Return(c) ==
  /\ clpc[c] = "range"
  /\ DOMAIN rbackends = {clorder[c][i].id : i \in 1..Len(clorder[c])}
  /\ rbackends' = Cleared(rbackends)
  /\ clret' = [clret EXCEPT ![c] = FirstErr(clorder[c])]
  /\ rmu' = [rmu EXCEPT !.writer = NoOne]
  /\ clpc' = [clpc EXCEPT ![c] = "returned"]
  /\ UNCHANGED <<restVars, nreg, clorder, gpc, gname, gok, closed>>

InitReg == Init /\ rate = 1 /\ capacity = TokenUnit

NextReg ==
  \/ Register
  \/ Get_RLock
  \/ Get_Return
  \/ \E c \in Closers : Close_Lock(c) \/ Close_Range(c) \/ Close_Return(c)

SpecReg == InitReg /\ [][NextReg]_vars

\* ---- the auth interceptor --------------------------------------------------------
\* One call of the handler auth.Middleware.Wrap(next) returns: the look-up of
\* the header, the scheme test, m.validator.Validate and, when the validator
\* accepts, next.Handle with the user in the context.
authWrap_Handle ==
  /\ apc = "call"
  /\ LET r == authHandle(ameta, ascheme, avalid, anext)
     IN /\ aret' = [resp |-> r.resp, err |-> r.err]
        /\ avcalls' = r.validated
        /\ ancalls' = IF r.forwarded THEN <<[user |-> "user", md |-> ameta]>> ELSE <<>>
  /\ apc' = "returned"
  /\ UNCHANGED <<limiterVars, regVars, chainVars, keyVars, runVars, clockVars, smu, buckets, heap,
                 reqVars, cleanVars, stopVars, histVars, ameta, ascheme, avalid, anext>>

InitAuth ==
  /\ LimiterInit /\ rate = 1 /\ capacity = TokenUnit
  /\ AdapterInit(<<>>) /\ KeyInit(NoIPRequest) /\ RunInit /\ RegistryInit
  /\ \E md \in AuthMetadatas : \E sch \in Schemes :
       \E v \in {"ok", "err"} : \E n \in {"ok", "err"} : AuthInit(md, sch, v, n)

NextAuth == authWrap_Handle

SpecAuth == InitAuth /\ [][NextAuth]_vars

\* ==== properties ==============================================================
BurstOf(cap) == cap \div TokenUnit
Keys == Services \ {<<>>}
\* the requests whose admission check on bucket id has completed
Checked(id) == {r \in Reqs : b[r] = id /\ pc[r] \in {"checked", "next", "done"}}
\* request r completes its admission check in this step
CheckStep(r) == pc[r] = "check" /\ pc'[r] = "checked"

\* C1: for every key K mapped in a shard, in every reachable state in which
\* no admission check holds the lock of K's bucket, 0 <= tokens(K) <= capacity.
C1_TokensInRange ==
  \A i \in ShardIdx : \A k \in DOMAIN buckets[i] :
    heap[buckets[i][k]].mu \notin Reqs =>
      (0 <= heap[buckets[i][k]].tokens /\ heap[buckets[i][k]].tokens <= capacity)

C3_FreshKeyFullBurst ==
  \A id \in DOMAIN heap :
    (\A r \in Checked(id) : now[r] = hist[id].born) =>
      /\ Cardinality({r \in Checked(id) : allowed[r]})
           = Min(Cardinality(Checked(id)), BurstOf(capacity))
      /\ (Checked(id) = {} /\ heap[id].mu = NoOne) => heap[id].tokens = capacity

\* capacity 1: two checks at the instant the key is first seen, the first
\* admitted, the second rejected
C3_Witness ==
  \E id \in DOMAIN heap :
    /\ BurstOf(capacity) = 1
    /\ Checked(id) = Reqs
    /\ \A r \in Reqs : now[r] = hist[id].born
    /\ \E r \in Reqs : ~allowed[r]

\* the completed admission checks of the sequential caller, oldest first
SeqChecks ==
  LET IsCheck(c) == c.key # <<>>
      cur == IF pc[1] \in {"checked", "next", "done"}
               THEN <<[key |-> key[1], b |-> b[1], at |-> now[1], ok |-> allowed[1]]>>
               ELSE <<>>
  IN SelectSeq(log \o cur, IsCheck)

\* the checks of key k among SeqChecks
ChecksOf(k) ==
  LET IsK(c) == c.key = k
  IN SelectSeq(SeqChecks, IsK)

\* rate = 1, capacity = 1, one key: the first check admits, a check on the
\* same bucket at the instant of the previous one rejects, and a check at
\* least the time of one token (1 second at rate 1) after the previous one
\* admits.
C4_Scenario ==
  \A k \in Keys :
    LET cs == ChecksOf(k)
    IN /\ Len(cs) >= 1 => cs[1].ok
       /\ \A i \in 2..Len(cs) :
            /\ (BurstOf(capacity) = 1 /\ cs[i].at = cs[i - 1].at /\ cs[i].b = cs[i - 1].b)
                 => ~cs[i].ok
            /\ (cs[i].at - cs[i - 1].at) * rate >= TokenUnit => cs[i].ok

C4_Arithmetic ==
  \A r \in Reqs :
    CheckStep(r) =>
      LET bk == heap[b[r]]
          t == Min(capacity, bk.tokens + (now[r] - bk.lastCheck) * rate)
      IN /\ allowed'[r] = (t >= TokenUnit)
         /\ heap'[b[r]].tokens = IF t >= TokenUnit THEN t - TokenUnit ELSE t
         /\ heap'[b[r]].lastCheck = now[r]
         /\ heap'[b[r]].lastUsed = now[r]

\* C4: each admission check computes tokens' = min(capacity, tokens +
\* elapsed*rate) with elapsed = now - lastRefill, sets lastRefill and lastUsed
\* to now and admits iff tokens' >= 1, leaving tokens' - 1; for calls made one
\* after another the scenario C4_Scenario follows.
C4_RefillAndScenario == [][C4_Arithmetic]_vars /\ []C4_Scenario

\* capacity 1, rate 1: admitted, rejected at the same instant, admitted one
\* second later
C4_Witness ==
  /\ BurstOf(capacity) = 1
  /\ \E k \in Keys :
       LET cs == ChecksOf(k)
       IN /\ Len(cs) = 3
          /\ cs[1].ok /\ ~cs[2].ok /\ cs[3].ok
          /\ cs[2].at = cs[1].at /\ cs[2].b = cs[1].b
          /\ (cs[3].at - cs[2].at) * rate = TokenUnit /\ cs[3].b = cs[1].b

\* C5: a rejected admission check performs no debit, not even a partial one:
\* the bucket's token count after the check is not lower than before it.
C5_RejectDoesNotDebit ==
  [][\A r \in Reqs :
       (CheckStep(r) /\ ~allowed'[r]) => heap'[b[r]].tokens >= heap[b[r]].tokens]_vars

\* the admission check of request r ended in a rejection
Rejected(r) == pc[r] \in {"checked", "done"} /\ key[r] # <<>> /\ ~allowed[r]

\* C6: a rejected request returns (nil, ErrRateLimited), its return is never
\* blocked, the next handler is never invoked for it, and it does nothing else:
\* no second check, no wait.
C6_RejectReturnsAtOnce ==
  /\ [](\A r \in Reqs :
          Rejected(r) =>
            /\ calls[r] = <<>>
            /\ hret[r] = NoRet
            /\ pc[r] = "checked" => ENABLED Wrap_Reject(r)
            /\ pc[r] = "done" => ret[r] = [resp |-> "nil", err |-> "ErrRateLimited"])
  /\ [][\A r \in Reqs :
          Rejected(r) =>
            /\ pc'[r] \in {pc[r], "done"}
            /\ calls'[r] = <<>>
            /\ (pc'[r] # pc[r]) => UNCHANGED <<smu, buckets, heap>>]_vars

C6_Witness ==
  \E r \in Reqs :
    /\ pc[r] = "done"
    /\ key[r] # <<>>
    /\ ~allowed[r]
    /\ ret[r].err = "ErrRateLimited"

\* C7: a request whose key is empty is forwarded to the next handler whatever
\* the other requests do: it never enters allow, never gets ErrRateLimited,
\* and its steps take no lock and leave every shard and bucket as it is.
C7_EmptyKeyBypasses ==
  /\ [](\A r \in Reqs :
          (pc[r] # "idle" /\ key[r] = <<>>) =>
            /\ pc[r] \in {"bypass", "next", "done"}
            /\ b[r] = Nil
            /\ ret[r].err # "ErrRateLimited"
            /\ pc[r] = "bypass" => ENABLED Wrap_Forward(r)
            /\ pc[r] \in {"next", "done"} => Len(calls[r]) = 1)
  /\ [][\A r \in Reqs :
          (key'[r] = <<>> /\ pc'[r] # pc[r]) => UNCHANGED <<smu, buckets, heap>>]_vars

\* all requests carry the empty key and are inside the next handler at once
C7_Witness ==
  /\ \A r \in Reqs : pc[r] = "next" /\ key[r] = <<>> /\ req[r].Service = <<>>
  /\ heap = <<>>

\* C8: a request only ever uses the bucket of its own key, and no step of a
\* request for key A changes the bucket of another key B or B's entry in the
\* shard map, also when A and B share a shard.
C8_OtherKeysUntouched ==
  /\ [](\A r \in Reqs : b[r] # Nil => hist[b[r]].key = key[r])
  /\ [][\A r \in Reqs :
          (pc'[r] # pc[r]) =>
            /\ \A id \in DOMAIN heap : hist[id].key # key'[r] => heap'[id] = heap[id]
            /\ \A i \in ShardIdx : \A k \in Keys \ {key'[r]} :
                 /\ (k \in DOMAIN buckets[i]) = (k \in DOMAIN buckets'[i])
                 /\ k \in DOMAIN buckets[i] => buckets'[i][k] = buckets[i][k]]_vars

\* two keys of one shard, one request between Lock and Unlock of its bucket
\* while the other completes its check
C8_Witness ==
  \E r1 \in Reqs : \E r2 \in Reqs :
    /\ key[r1] # key[r2]
    /\ getShard(key[r1]) = getShard(key[r2])
    /\ pc[r1] = "check"
    /\ pc[r2] = "checked"
    /\ b[r1] # b[r2]

\* request r was forwarded to the next handler
Forwarded(r) == pc[r] \in {"next", "done"} /\ (key[r] = <<>> \/ allowed[r])

\* C9: an admitted or bypassed request calls the next handler exactly once,
\* with the caller's context and request, and returns what the handler
\* returned, error included; the handler's return changes no bucket.
C9_ForwardsUnchanged ==
  /\ [](\A r \in Reqs :
          /\ Forwarded(r) => calls[r] = <<[ctx |-> CallerCtx(r), req |-> req[r]]>>
          /\ (Forwarded(r) /\ pc[r] = "done") => (hret[r] \in HandlerRets /\ ret[r] = hret[r]))
  /\ [][\A r \in Reqs :
          (pc[r] = "next" /\ pc'[r] = "done") => UNCHANGED <<smu, buckets, heap>>]_vars

\* an admitted request and a bypassed one whose handlers failed
C9_Witness ==
  \E r1 \in Reqs : \E r2 \in Reqs :
    /\ pc[r1] = "done" /\ allowed[r1] /\ ret[r1].err = "backendErr"
    /\ pc[r2] = "done" /\ key[r2] = <<>> /\ ret[r2].err = "backendErr"

\* C10: a bucket leaves its shard's map only in the delete phase of the
\* eviction scan of that shard, under the shard's write lock and the bucket's
\* lock, and only if its lastUsed is then still before the scan's cutoff; a
\* candidate whose lastUsed is no longer before the cutoff stays.
C10_DeleteOnlyIfStillIdle ==
  [][\A i \in ShardIdx : \A k \in DOMAIN buckets[i] :
       /\ (k \notin DOMAIN buckets'[i]) =>
            /\ cpc = "delete" /\ si = i /\ toDelete[di] = k
            /\ smu[i].writer = Cleaner
            /\ heap[buckets[i][k]].mu = NoOne
            /\ heap[buckets[i][k]].lastUsed < cutoff
       /\ (cpc = "delete" /\ si = i /\ di' = di + 1 /\ toDelete[di] = k
             /\ heap[buckets[i][k]].lastUsed >= cutoff) =>
            (k \in DOMAIN buckets'[i] /\ buckets'[i][k] = buckets[i][k])]_vars

\* a candidate of the scan phase was used again before the delete phase
\* reached it, and was kept
C10_Witness ==
  /\ cpc = "delete"
  /\ di > 1
  /\ toDelete[di - 1] \in DOMAIN buckets[si]
  /\ heap[buckets[si][toDelete[di - 1]]].lastUsed >= cutoff

\* ---- scheduling ---------------------------------------------------------------
\* the steps of allow between its first lock and the release of the bucket
allow_Steps(r) ==
  \/ allow_RLock(r)
  \/ allow_Lookup(r)
  \/ allow_WLock(r)
  \/ allow_Create(r)
  \/ allow_BLock(r)
  \/ allow_Check(r)

\* the cleanup goroutine of a limiter on which Stop is not called
Cleanup_Running ==
  \/ Loop_Tick
  \/ cleanup_RLock
  \/ cleanup_Return
  \/ cleanup_Scan
  \/ cleanup_RUnlock
  \/ cleanup_WLock
  \/ cleanup_Delete
  \/ cleanup_Unlock

NextLive ==
  \/ \E r \in Reqs : Request(r)
  \/ Cleanup_Running
  \/ Tick

\* The Go scheduler runs every runnable goroutine: the cleanup goroutine and a
\* request inside allow take their next step when it stays possible.
Fairness ==
  /\ WF_vars(Cleanup_Running)
  /\ \A r \in Reqs : WF_vars(allow_Steps(r))

\* New(1, 1, ByService, ...): eviction does not read the token arithmetic, so
\* the scheduling of the eviction task is checked for one configuration of
\* the limiter
InitLive == Init /\ rate = 1 /\ capacity = TokenUnit

SpecLive == InitLive /\ [][NextLive]_vars /\ Fairness

\* bucket id is the bucket its key is mapped to
Mapped(id) ==
  /\ id \in DOMAIN heap
  /\ MapLookup(buckets[getShard(hist[id].key)], hist[id].key) = id

\* C11: while the limiter is not stopped, a mapped bucket whose last use lies
\* more than maxIdleTime before a pending tick of the eviction task, and which
\* gets no further admission check, is removed from its shard by the scan that
\* tick starts.
C11_IdleBucketEvicted ==
  \A id \in 1..NumReq : \A c \in 1..NumReq :
    (/\ Mapped(id)
     /\ Cardinality(Checked(id)) = c
     /\ cpc = "select" /\ tickReady /\ ~stopCleanup
     /\ clock - maxIdleTime > heap[id].lastUsed)
      ~> (~Mapped(id) \/ Cardinality(Checked(id)) # c \/ stopCleanup)

\* a bucket that was checked and then left idle has been removed by a scan,
\* the limiter still running
C11_Witness ==
  \E id \in DOMAIN heap :
    /\ ~Mapped(id)
    /\ Checked(id) # {}
    /\ \A r \in Reqs : b[r] = id => pc[r] = "done"
    /\ ~stopCleanup
    /\ cpc = "select"
    /\ clock - maxIdleTime > heap[id].lastUsed

\* a call of Stop has returned
StopReturned == spc \in {"returned", "panic"}

\* C12: Stop returns only after the cleanup goroutine has exited (ticker
\* stopped, cleanupDone closed, no lock held); from then on, however far the
\* clock advances, no scan starts or runs and no bucket leaves its shard.
C12_StopEndsEviction ==
  /\ [](StopReturned =>
          /\ cpc = "exited"
          /\ cleanupDone
          /\ tickerStopped
          /\ \A i \in ShardIdx : smu[i].writer # Cleaner /\ Cleaner \notin smu[i].readers)
  /\ [][StopReturned =>
          /\ UNCHANGED cleanVars
          /\ \A i \in ShardIdx : DOMAIN buckets[i] \subseteq DOMAIN buckets'[i]]_vars

\* Stop has returned, the clock has passed the cleanup interval and a bucket
\* idle for longer than maxIdleTime is still in its shard
C12_Witness ==
  /\ spc = "returned"
  /\ clock = MaxTime
  /\ \E id \in DOMAIN heap :
       /\ Mapped(id)
       /\ heap[id].mu = NoOne
       /\ clock - maxIdleTime > heap[id].lastUsed
       /\ \A r \in Reqs : b[r] = id => pc[r] = "done"

\* C13: a call of Stop on a limiter that is already stopped completes
\* normally: it does not panic.
C13_StopAgainCompletes == spc # "panic"

\* ---- the middleware chain -------------------------------------------------------
\* m1.Wrap(m2.Wrap(... mn.Wrap(h)))
RECURSIVE Nested(_, _)
Nested(h, ms) == IF ms = <<>> THEN h ELSE Wrap(Head(ms), Nested(h, Tail(ms)))

\* by the request's inputs: interceptor m returns an error of its own
Rejects(m, in) ==
  \/ m = "ratelimit" /\ ~in.allow
  \/ m = "auth" /\ (in.token # "bearer" \/ in.valid = "err")

\* the error it returns then
RejectErr(m, in) ==
  IF m = "ratelimit" THEN "ErrRateLimited"
  ELSE IF in.token = "missing" THEN "ErrMissingToken"
  ELSE IF in.token = "badscheme" THEN "ErrInvalidToken"
  ELSE "ErrUnauthorized"

\* by the request's inputs: interceptor m panics
Panics(m, in) == m = "auth" /\ in.token = "bearer" /\ in.valid = "panic"

\* the interceptors before position i all forward the request
ForwardedTo(i) == \A j \in 1..(i - 1) : ~Rejects(mws[j], cin) /\ ~Panics(mws[j], cin)

\* the adapter has run the chain for a request
Served == chpc = "served" /\ cin.body = "ok"

\* the pre-call steps of ms in order, and their post-call steps, last first,
\* each observing err
Ins(ms) == [i \in 1..Len(ms) |-> EvIn(ms[i])]
Outs(ms, err) == [i \in 1..Len(ms) |-> [ev |-> "out", mw |-> ms[Len(ms) + 1 - i], err |-> err]]

\* C14: Chain(h, m1, ..., mn) is m1.Wrap(m2.Wrap(... mn.Wrap(h))), and h itself
\* for the empty list; a request every interceptor forwards and h answers
\* runs the pre-call steps of m1, ..., mn in this order, then h, then the
\* post-call steps of mn, ..., m1.
C14_ChainIsNesting ==
  /\ Chain(baseHandler, mws) = Nested(baseHandler, mws)
  /\ Chain(baseHandler, <<>>) = baseHandler
  /\ (chpc # "new" /\ mws = <<>>) => chandler = baseHandler
  /\ (Served /\ csplit = Len(mws) /\ ForwardedTo(Len(mws) + 1) /\ cin.base # "panic") =>
       ctrace = Ins(mws) \o HandleBase(cin).trace \o Outs(mws, cout.err)

\* recover, logging, ratelimit around the handler: all three forward
C14_Witness ==
  /\ Served
  /\ csplit = Len(mws)
  /\ mws = <<"recover", "logging", "ratelimit">>
  /\ cin.allow
  /\ cin.base = "ok"
  /\ Len(ctrace) = 8

\* C15: when interceptor mi is the first to return an error of its own, the
\* steps of the request are the pre-call steps of m1, ..., mi followed by the
\* returns of mi, ..., m1 with that error: no later interceptor and not the
\* terminal handler is entered, and the chain returns (nil, error).
C15_ShortCircuit ==
  \A i \in 1..Len(mws) :
    (Served /\ ForwardedTo(i) /\ Rejects(mws[i], cin)) =>
      /\ ctrace = Ins(SubSeq(mws, 1, i)) \o Outs(SubSeq(mws, 1, i), RejectErr(mws[i], cin))
      /\ cout = Returned("nil", RejectErr(mws[i], cin))

\* the rate limiter in second place rejects: logging sees the error, auth and
\* the handler are not entered
C15_Witness ==
  /\ Served
  /\ mws = <<"logging", "ratelimit", "auth">>
  /\ ~cin.allow
  /\ cout.err = "ErrRateLimited"
  /\ Len(ctrace) = 4

\* the list with the interceptors at i and i + 1 exchanged
Swap(ms, i) == [j \in 1..Len(ms) |-> IF j = i THEN ms[i + 1] ELSE IF j = i + 1 THEN ms[i] ELSE ms[j]]

\* C16: for every split of a list into A and B, Chain(Chain(h, B...), A...) is
\* the handler Chain(h, A..., B...) and serves a request with the same outcome
\* and steps; exchanging two different neighbours the request reaches changes
\* the order of the steps.
C16_AssociativeOrdered ==
  /\ \A k \in 0..Len(mws) :
       Chain(Chain(baseHandler, SubSeq(mws, k + 1, Len(mws))), SubSeq(mws, 1, k))
         = Chain(baseHandler, mws)
  /\ Served =>
       /\ cout = Handle(Chain(baseHandler, mws), cin).out
       /\ ctrace = Handle(Chain(baseHandler, mws), cin).trace
       /\ \A i \in 1..(Len(mws) - 1) :
            (mws[i] # mws[i + 1] /\ ForwardedTo(i)) =>
              Handle(Chain(baseHandler, Swap(mws, i)), cin).trace # ctrace

\* a list of three composed as Chain(Chain(h, B...), A...) with A and B not
\* empty, serving a request
C16_Witness ==
  /\ Served
  /\ Len(mws) = MaxChain
  /\ csplit \in 1..(Len(mws) - 1)
  /\ mws[1] # mws[2]
  /\ cout.err = "nil"

\* the position at which the request panics: an interceptor, or the terminal
\* handler (Len(mws) + 1); 0 when nothing panics
PanicAt ==
  IF \E i \in 1..Len(mws) : ForwardedTo(i) /\ Panics(mws[i], cin)
    THEN CHOOSE i \in 1..Len(mws) : ForwardedTo(i) /\ Panics(mws[i], cin)
  ELSE IF ForwardedTo(Len(mws) + 1) /\ cin.base = "panic" THEN Len(mws) + 1
  ELSE 0

\* C17: a panic of an interceptor or of the terminal handler is caught by a
\* recover interceptor placed before (outside) the place of the panic: the
\* chain returns (nil, ErrPanic); with no recover outside that place the
\* panic leaves the chain.
C17_RecoverOutside ==
  (Served /\ PanicAt > 0) =>
    IF \E i \in 1..(PanicAt - 1) : mws[i] = "recover"
      THEN cout = Returned("nil", "ErrPanic")
      ELSE cout.panic

\* recover first, the validator of auth panics
C17_Witness ==
  /\ Served
  /\ mws = <<"recover", "logging", "auth">>
  /\ PanicAt = 3
  /\ cout.err = "ErrPanic"

\* C19: a request the rate limiter of the chain rejects is answered 429 and
\* backend.Call is not invoked for it; an error that is none of the auth
\* errors and not ErrRateLimited is answered 500.
C19_RateLimited429 ==
  /\ \A i \in 1..Len(mws) :
       (Served /\ ForwardedTo(i) /\ mws[i] = "ratelimit" /\ ~cin.allow) =>
         /\ status = 429
         /\ \A e \in 1..Len(ctrace) : ctrace[e].ev # "call"
  /\ (Served /\ ~cout.panic
        /\ cout.err \notin {"nil", "ErrUnauthorized", "ErrInvalidToken", "ErrMissingToken",
                            "ErrRateLimited"}) => status = 500

\* logging, auth and the rate limiter configured; the limiter rejects
C19_Witness ==
  /\ Served
  /\ mws = <<"logging", "auth", "ratelimit">>
  /\ cin.token = "bearer" /\ cin.valid = "ok"
  /\ ~cin.allow
  /\ status = 429

\* ---- ByIP -----------------------------------------------------------------------
Whitespace == {9, 10, 11, 12, 13, 32}

Substrings(v) == {SubSeq(v, i, j) : i \in 1..(Len(v) + 1), j \in 0..Len(v)}

\* e is the part of v before its first comma
FirstElement(e, v) ==
  \E c \in 1..(Len(v) + 1) :
    /\ c = Len(v) + 1 \/ v[c] = 44
    /\ \A k \in 1..(c - 1) : v[k] # 44
    /\ e = SubSeq(v, 1, c - 1)

\* t is e without its leading and trailing whitespace
Trimmed(t, e) ==
  \E i \in 0..Len(e) : \E j \in i..Len(e) :
    /\ t = SubSeq(e, i + 1, j)
    /\ \A k \in (1..i) \cup ((j + 1)..Len(e)) : e[k] \in Whitespace
    /\ t # <<>> => (t[1] \notin Whitespace /\ t[Len(t)] \notin Whitespace)

\* the first value of header name, the empty string when there is none
FirstValue(name) ==
  IF name \in DOMAIN ipreq.Metadata /\ ipreq.Metadata[name] # <<>>
    THEN ipreq.Metadata[name][1]
    ELSE <<>>

\* the three candidates, in the order of precedence
ForwardedForCandidate ==
  LET e == CHOOSE x \in Substrings(FirstValue("X-Forwarded-For")) :
             FirstElement(x, FirstValue("X-Forwarded-For"))
  IN CHOOSE t \in Substrings(e) : Trimmed(t, e)

RealIpCandidate ==
  CHOOSE t \in Substrings(FirstValue("X-Real-Ip")) : Trimmed(t, FirstValue("X-Real-Ip"))

\* what precedes the colon of host:port; the whole address when it is not of
\* that form
AddrCandidate ==
  LET a == ipreq.RemoteAddr
      colons == {i \in 1..Len(a) : a[i] = 58}
  IN IF Cardinality(colons) = 1
       THEN SubSeq(a, 1, (CHOOSE i \in colons : TRUE) - 1)
       ELSE a

\* C18: ByIP returns the first non-empty candidate among: the trimmed first
\* comma-separated element of the first X-Forwarded-For value, the trimmed
\* first X-Real-Ip value, the host part of RemoteAddr (RemoteAddr itself
\* without a port); the empty key when there is none; "1.2.3.4, 5.6.7.8" in
\* X-Forwarded-For gives "1.2.3.4".
C18_ByIPPrecedence ==
  ippc = "done" =>
    /\ ipkey = IF ForwardedForCandidate # <<>> THEN ForwardedForCandidate
               ELSE IF RealIpCandidate # <<>> THEN RealIpCandidate
               ELSE AddrCandidate
    /\ FirstValue("X-Forwarded-For") = xffScenario => ipkey = <<49, 46, 50, 46, 51, 46, 52>>

\* the first element of X-Forwarded-For is blank, X-Real-Ip is absent or
\* blank, and the key is the host of a host:port RemoteAddr
C18_Witness ==
  /\ ippc = "done"
  /\ FirstValue("X-Forwarded-For") = <<32, 44>>
  /\ "X-Real-Ip" \in DOMAIN ipreq.Metadata
  /\ FirstValue("X-Real-Ip") = <<9>>
  /\ ipreq.RemoteAddr = <<49, 58, 49>>
  /\ ipkey = <<49>>

\* ---- Protokol.Run -----------------------------------------------------------------
\* caller c went past the check of the running flag
Proceeded(c) ==
  \/ rpc[c] \in {"spawn", "select", "stop", "stopping"}
  \/ rpc[c] = "done" /\ rret[c] # "ErrAlreadyRunning"

\* caller c has set the running flag and its Stop has not yet reset it
HoldsRunning(c) == rpc[c] \in {"spawn", "select", "stop", "stopping"}

\* a Run that finds the instance running returns ErrAlreadyRunning, starts
\* nothing and leaves the running state as it is
RefusedWhileRunning ==
  \A c \in Runners :
    (rpc[c] = "locked" /\ running /\ rpc'[c] # rpc[c]) =>
      /\ rpc'[c] = "done"
      /\ rret'[c] = "ErrAlreadyRunning"
      /\ UNCHANGED <<running, gor, errCh, nstart, nstop, nclose>>

\* C20 as stated: a Run that finds the instance running returns
\* ErrAlreadyRunning without starting an adapter or changing the running
\* state, and of the concurrent Run calls on an idle instance exactly one
\* goes on to start the adapters.
C20_ExactlyOneRunProceeds ==
  /\ [][RefusedWhileRunning]_vars
  /\ [](Cardinality({c \in Runners : Proceeded(c)}) <= 1)

\* C20 amended: a Run that finds the instance running returns
\* ErrAlreadyRunning without starting an adapter or changing the running
\* state; a Run goes on only when it finds the flag reset, so at any time at
\* most one call is between setting the flag and the end of its own Stop, and
\* running is set exactly then.
C20_OneRunAtATime ==
  /\ [][/\ RefusedWhileRunning
        /\ \A c \in Runners :
             (~HoldsRunning(c) /\ HoldsRunning(c)') =>
               (~running /\ \A d \in Runners : ~HoldsRunning(d))]_vars
  /\ [](/\ Cardinality({c \in Runners : HoldsRunning(c)}) <= 1
        /\ running = (\E c \in Runners : HoldsRunning(c)))

\* one call is running the adapters, the other was refused
C20_Witness ==
  \E c \in Runners : \E d \in Runners :
    /\ rpc[c] = "select" /\ running
    /\ \E a \in Adapters : gor[c][a] = "in"
    /\ rpc[d] = "done" /\ rret[d] = "ErrAlreadyRunning"

\* ---- BackendRegistry ------------------------------------------------------------
\* caller c returns from Close in this step
CloseReturns(c) == clpc[c] = "range" /\ clpc'[c] = "returned"

\* C21: a call of Close invokes Close once on each backend then registered
\* and on nothing else, returns the first error its loop met and leaves the
\* registry empty; a call that finds the registry empty (any later call with
\* no Register in between) invokes no Close and returns nil; Get reports
\* not-found for every name from the return of Close until a Register.
C21_CloseOnceThenEmpty ==
  /\ [][\A c \in Closers :
          CloseReturns(c) =>
            /\ {clorder[c][i].id : i \in 1..Len(clorder[c])} = DOMAIN rbackends
            /\ Len(clorder[c]) = Cardinality(DOMAIN rbackends)
            /\ \A i \in 1..Len(clorder[c]) : clorder[c][i] = rbackends[clorder[c][i].id]
            /\ clret'[c] = (IF \E i \in 1..Len(clorder[c]) : clorder[c][i].err # "nil"
                              THEN LET i == CHOOSE i \in 1..Len(clorder[c]) :
                                              /\ clorder[c][i].err # "nil"
                                              /\ \A j \in 1..(i - 1) : clorder[c][j].err = "nil"
                                   IN <<clorder[c][i].err, clorder[c][i].id>>
                              ELSE "nil")
            /\ rbackends' = <<>>
            /\ (rbackends = <<>>) => (clorder[c] = <<>> /\ clret'[c] = "nil")]_vars
  /\ [][(gpc = "locked" /\ gpc' = "call") => (gok' = (gname \in DOMAIN rbackends))]_vars
  /\ [][(\E n \in BackendNames : closed'[n] # closed[n]) =>
          \E c \in Closers : clpc[c] = "range" /\ Len(clorder'[c]) = Len(clorder[c]) + 1]_vars
  /\ [](\A n \in BackendNames : closed[n] <= nreg)

\* both backends were registered, the first call closed both and returned the
\* error of the one its loop met first, the second call closed nothing and
\* returned nil, and Get then found nothing
C21_Witness ==
  \E c \in Closers : \E d \in Closers :
    /\ clpc[c] = "returned" /\ Len(clorder[c]) = 2 /\ clret[c] # "nil"
    /\ clorder[c][1].err # "nil" /\ clorder[c][2].err # "nil"
    /\ clpc[d] = "returned" /\ clorder[d] = <<>> /\ clret[d] = "nil"
    /\ rbackends = <<>>
    /\ gpc = "call" /\ ~gok
    /\ \A n \in BackendNames : closed[n] = 1

\* ---- concurrency of the limiter ------------------------------------------------
\* request r leaves the creation block of allow in this step
CreateStep(r) == pc[r] = "create" /\ pc'[r] = "block"
\* the requests for key k that read the clock at instant t, were handed
\* bucket id and were admitted
AdmittedAt(k, t, id) ==
  {r \in Reqs : key[r] = k /\ now[r] = t /\ b[r] = id /\ pc[r] \in {"checked", "next", "done"}
                /\ allowed[r]}

\* C22, as claimed: every request that was waiting for its re-check when
\* another request inserted the bucket of their key goes on with that bucket,
\* and no second bucket is made for it.
C22_ExactlyOneBucket ==
  \A id \in DOMAIN hist : \A r \in hist[id].lost :
    (key[r] = hist[id].key /\ b[r] # Nil) => b[r] = id

\* C22, amended: of the requests that found a key absent under the read lock,
\* the one that finds it still absent under the exclusive lock inserts one
\* fresh bucket; every other that finds the key mapped on its re-check inserts
\* nothing and uses the mapped bucket; the requests that read the clock at
\* the instant of a bucket's creation are together admitted at most capacity
\* times by that bucket.
C22_OneBucketPerRace ==
  /\ [][\A r \in Reqs :
          CreateStep(r) =>
            IF key[r] \in DOMAIN buckets[Shard(r)]
              THEN /\ b'[r] = buckets[Shard(r)][key[r]]
                   /\ buckets' = buckets
                   /\ DOMAIN heap' = DOMAIN heap
              ELSE /\ b'[r] \notin DOMAIN heap
                   /\ DOMAIN heap' = DOMAIN heap \cup {b'[r]}
                   /\ buckets'[Shard(r)] = (key[r] :> b'[r]) @@ buckets[Shard(r)]
                   /\ heap'[b'[r]].tokens = capacity]_vars
  /\ [](\A id \in DOMAIN hist :
          Cardinality(AdmittedAt(hist[id].key, hist[id].born, id)) <= BurstOf(capacity))

\* two requests for one key both found it absent; one bucket exists, both
\* were checked against it, and with a burst of one only one was admitted
C22_Witness ==
  /\ capacity = TokenUnit
  /\ Cardinality(DOMAIN heap) = 1
  /\ \E r1 \in Reqs : \E r2 \in Reqs \ {r1} :
       /\ key[r1] = key[r2] /\ now[r1] = now[r2]
       /\ b[r1] = b[r2] /\ b[r1] # Nil
       /\ pc[r1] = "done" /\ pc[r2] = "done"
       /\ allowed[r1] /\ ~allowed[r2]
       /\ hist[b[r1]].born = now[r1]
       /\ r2 \in hist[b[r1]].lost

\* the limiter under traffic for keys of two shards
InitShard == Init /\ rate = 1 /\ capacity = TokenUnit

NextShard ==
  \/ \E r \in Reqs : \/ Wrap_EnterSharded(r)
                     \/ allow_Steps(r)
                     \/ Wrap_Reject(r)
                     \/ Wrap_Forward(r)
                     \/ Handler_Return(r)
  \/ Cleanup
  \/ Stop_Close
  \/ Stop_Wait
  \/ Tick

SpecShard == InitShard /\ [][NextShard]_vars

\* C23: every key mapped in shard i hashes to i modulo the number of shards,
\* so no key is mapped in two shards; the shard array keeps its 32 shards and
\* their locks, and every request is keyed by the one configured extractor.
C23_KeyInItsShard ==
  /\ [](\A i \in ShardIdx : \A k \in DOMAIN buckets[i] : Sum32lo(k) % defaultShards = i)
  /\ [](\A k \in ShardedServices : Cardinality({i \in ShardIdx : k \in DOMAIN buckets[i]}) <= 1)
  /\ [](DOMAIN buckets = ShardIdx /\ DOMAIN smu = ShardIdx)
  /\ [][DOMAIN buckets' = DOMAIN buckets /\ DOMAIN smu' = DOMAIN smu]_vars
  /\ [](\A r \in Reqs : pc[r] # "idle" => key[r] = ByService(req[r]))

\* two keys are mapped at once, each in the shard of its hash, and these are
\* different shards
C23_Witness ==
  \E i \in ShardIdx : \E j \in ShardIdx \ {i} :
    /\ DOMAIN buckets[i] = {<<97>>}
    /\ DOMAIN buckets[j] = {<<98>>}
    /\ \A r \in Reqs : pc[r] = "done"

\* the locks worker w holds: shard locks by shard index, bucket locks by pointer
ShardLocksOf(w) == {i \in ShardIdx : w \in smu[i].readers \/ smu[i].writer = w}
BucketLocksOf(w) == {id \in DOMAIN heap : heap[id].mu = w}
\* allow has returned to Wrap, or Wrap never called it
OutOfAllow(r) == pc[r] \in {"bypass", "checked", "next", "done"}

\* C24: from the return of allow on, through the rejection or the call of the
\* next handler and its return, a request holds no shard lock and no bucket
\* lock.
C24_NoLockAcrossHandler ==
  \A r \in Reqs : OutOfAllow(r) => (ShardLocksOf(r) = {} /\ BucketLocksOf(r) = {})

\* one request is inside the next handler, admitted by a bucket whose lock
\* another request for the same key holds at that moment
C24_Witness ==
  \E r1 \in Reqs : \E r2 \in Reqs \ {r1} :
    /\ pc[r1] = "next" /\ key[r1] # <<>> /\ allowed[r1]
    /\ pc[r2] = "check" /\ b[r2] = b[r1]
    /\ heap[b[r1]].mu = r2

\* a limiter that has admitted one request for "a" and one for "A" at the
\* start of its clock: both buckets exist, in shard 12, one token short of
\* a burst of two; the workers are those of the requests that come next
WarmBucket == [mu |-> NoOne, tokens |-> TokenUnit, lastCheck |-> 0, lastUsed |-> 0]
WarmHist(k) == [key |-> k, born |-> 0, at |-> 0, T |-> 2 * TokenUnit, n |-> 1, adm |-> 1,
                lost |-> {}]

InitWarm ==
  /\ rate = 1
  /\ capacity = 2 * TokenUnit
  /\ clock = 0
  /\ tickReady = FALSE
  /\ tickerStopped = FALSE
  /\ smu = [i \in ShardIdx |-> [readers |-> {}, writer |-> NoOne]]
  /\ buckets = [i \in ShardIdx |->
                  IF i = getShard(<<97>>) THEN (<<97>> :> 1) @@ (<<65>> :> 2) ELSE <<>>]
  /\ heap = <<WarmBucket, WarmBucket>>
  /\ pc = [r \in Reqs |-> "idle"]
  /\ req = [r \in Reqs |-> [Service |-> <<>>, Method |-> <<109>>]]
  /\ key = [r \in Reqs |-> <<>>]
  /\ now = [r \in Reqs |-> 0]
  /\ b = [r \in Reqs |-> Nil]
  /\ allowed = [r \in Reqs |-> FALSE]
  /\ calls = [r \in Reqs |-> <<>>]
  /\ hret = [r \in Reqs |-> NoRet]
  /\ ret = [r \in Reqs |-> NoRet]
  /\ cpc = "select"
  /\ cutoff = 0
  /\ si = 0
  /\ toDelete = <<>>
  /\ scanned = {}
  /\ di = 1
  /\ stopCleanup = FALSE
  /\ cleanupDone = FALSE
  /\ spc = "idle"
  /\ hist = <<WarmHist(<<97>>), WarmHist(<<65>>)>>
  /\ log = <<>>
  /\ AdapterInit(<<>>) /\ KeyInit(NoIPRequest) /\ RunInit /\ RegistryInit /\ NoAuth

SpecWarm == InitWarm /\ [][Next]_vars

\* request r ends its lookup under the read lock in this step
LookupStep(r) == pc[r] = "lookup" /\ pc'[r] # "lookup"

\* C25: a check that finds its key mapped under the read lock goes straight
\* to the lock of the mapped bucket; while it waits for and holds that lock it
\* holds no shard lock, the only shard lock a check ever holds is that of its
\* key's shard, exclusively only inside the creation block, and the only
\* bucket lock it ever holds is that of its own key's bucket.
C25_OnlyReadLockAndOwnBucket ==
  /\ [][\A r \in Reqs :
          LookupStep(r) =>
            /\ smu[Shard(r)].writer = NoOne /\ r \in smu[Shard(r)].readers
            /\ IF key[r] \in DOMAIN buckets[Shard(r)]
                 THEN pc'[r] = "block" /\ b'[r] = buckets[Shard(r)][key[r]]
                 ELSE pc'[r] = "wlock"]_vars
  /\ [][\A r \in Reqs : pc[r] = "block" => pc'[r] \in {"block", "check"}]_vars
  /\ [](\A r \in Reqs :
          /\ ShardLocksOf(r) \subseteq {Shard(r)}
          /\ pc[r] \in {"block", "check"} => ShardLocksOf(r) = {}
          /\ (\E i \in ShardIdx : smu[i].writer = r) => pc[r] = "create"
          /\ BucketLocksOf(r) = IF pc[r] = "check" THEN {b[r]} ELSE {}
          /\ b[r] # Nil => hist[b[r]].key = key[r])

\* two checks for the two existing keys of shard 12 hold their bucket locks
\* at the same time, and no bucket was created for them
C25_Witness ==
  \E r1 \in Reqs : \E r2 \in Reqs \ {r1} :
    /\ key[r1] = <<97>> /\ key[r2] = <<65>>
    /\ Shard(r1) = Shard(r2)
    /\ pc[r1] = "check" /\ pc[r2] = "check"
    /\ heap[b[r1]].mu = r1 /\ heap[b[r2]].mu = r2
    /\ DOMAIN heap = {1, 2}

\* the keys of shard i whose entry this step adds, removes or points elsewhere
Inserted(i) == DOMAIN buckets'[i] \ DOMAIN buckets[i]
Removed(i) == DOMAIN buckets[i] \ DOMAIN buckets'[i]
Repointed(i) == {k \in DOMAIN buckets[i] \cap DOMAIN buckets'[i] : buckets'[i][k] # buckets[i][k]}
\* the step is one of the eviction task's deletions under the exclusive lock
DeleteStep == cpc = "delete" /\ cpc' = "delete" /\ di' = di + 1

\* C26: a step that adds a key to a shard is the creation block of a request
\* for that key, which found it absent; a step that removes a key is a
\* deletion of the eviction task, which holds the shard's exclusive lock; no
\* step points a mapped key to another bucket; so no step of a request and no
\* step of Stop removes a bucket and no step of the eviction task adds one.
C26_InsertByRequestRemoveByEviction ==
  [][\A i \in ShardIdx :
       /\ \A k \in Inserted(i) :
            /\ \E r \in Reqs : CreateStep(r) /\ key[r] = k /\ Shard(r) = i
                                /\ smu[i].writer = r /\ buckets'[i][k] \notin DOMAIN heap
            /\ ~DeleteStep /\ cpc' = cpc /\ spc' = spc
       /\ \A k \in Removed(i) :
            /\ DeleteStep /\ si = i /\ smu[i].writer = Cleaner /\ toDelete[di] = k
            /\ pc' = pc /\ spc' = spc
       /\ Repointed(i) = {}]_vars

\* a bucket was inserted by a request, rejected another request, and was
\* removed by the eviction task, after which Stop returned with the map empty
C26_Witness ==
  /\ \E id \in DOMAIN heap :
       /\ \A i \in ShardIdx : \A k \in DOMAIN buckets[i] : buckets[i][k] # id
       /\ \E r \in Reqs : b[r] = id /\ pc[r] = "done" /\ ~allowed[r]
  /\ spc = "returned"

\* ---- admissions of one instant -------------------------------------------------
\* allow has decided on request r
Decided(r) == key[r] # <<>> /\ pc[r] \in {"checked", "next", "done"}

\* Time passes until the first admission decision and then stands still, so
\* that every decision of the run is made at the one instant the clock shows.
Tick_Undecided ==
  /\ \A r \in Reqs : ~Decided(r)
  /\ Tick

NextInstant ==
  \/ \E r \in Reqs : Request(r)
  \/ Cleanup
  \/ Stop_Close
  \/ Stop_Wait
  \/ Tick_Undecided

SpecInstant == Init /\ [][NextInstant]_vars

\* the requests for key k that allow has admitted
AdmittedFor(k) == {r \in Reqs : Decided(r) /\ key[r] = k /\ allowed[r]}
\* the buckets of key k that the eviction task has removed from the map
EvictedFor(k) == {id \in DOMAIN heap : hist[id].key = k /\ ~Mapped(id)}

\* C27, for the window of length 0 at the instant at which all admission
\* decisions of the run are made: the requests admitted for a key at that
\* instant number at most capacity, plus capacity for each eviction of the
\* key's bucket.
C27_WindowBound ==
  \A k \in Keys :
    Cardinality(AdmittedFor(k)) * TokenUnit
      <= capacity + rate * 0 + capacity * Cardinality(EvictedFor(k))

\* ---- eviction against a check in flight ----------------------------------------
\* C28, as claimed: the bucket a check refills and debits is the bucket
\* mapped for its key at that moment.
C28_DebitOnMappedBucket ==
  [][\A r \in Reqs : CheckStep(r) => Mapped(b[r])]_vars

\* C28, amended: the bucket a check refills and debits is a bucket of its
\* key, the one that was mapped when the request looked the key up or
\* inserted it, and the check changes no other bucket; a bucket leaves the
\* map only in a deletion of the eviction task, found idle and with its lock
\* free, so never during the critical section of a check.
C28_DebitOnLookedUpBucket ==
  /\ [][\A r \in Reqs :
          /\ (LookupStep(r) \/ CreateStep(r)) => (b'[r] = Nil \/ \E id \in DOMAIN heap' : id = b'[r] /\ Mapped(id)')
          /\ CheckStep(r) =>
               /\ hist[b[r]].key = key[r]
               /\ \A id \in DOMAIN heap \ {b[r]} : heap'[id] = heap[id]]_vars
  /\ [][\A id \in DOMAIN heap :
          (Mapped(id) /\ ~Mapped(id)') =>
            /\ DeleteStep
            /\ heap[id].mu = NoOne
            /\ StillIdle(heap[id], cutoff)]_vars

\* a request holds the lock of a bucket the eviction task removed after the
\* request had looked it up, while a fresh bucket is mapped for its key
C28_Witness ==
  \E r \in Reqs :
    /\ pc[r] = "check"
    /\ heap[b[r]].mu = r
    /\ ~Mapped(b[r])
    /\ \E id \in DOMAIN heap : id # b[r] /\ hist[id].key = key[r] /\ Mapped(id)

\* ---- the clock of a check ------------------------------------------------------
\* C29: no step moves a bucket's lastCheck or lastUsed backward, and the
\* elapsed time a check computes, its clock reading less the bucket's
\* lastCheck, is never negative.
C29_TimeNeverBackward ==
  [][/\ \A id \in DOMAIN heap :
          /\ heap'[id].lastCheck >= heap[id].lastCheck
          /\ heap'[id].lastUsed >= heap[id].lastUsed
     /\ \A r \in Reqs : CheckStep(r) => now[r] - heap[b[r]].lastCheck >= 0]_vars

\* ---- the locking discipline ----------------------------------------------------
\* The limiter with its requests, the eviction task and the shutdown path, all
\* scheduled: the cleanup goroutine and every request inside allow take their
\* next step when it stays possible.
FairnessLock ==
  /\ WF_vars(Cleanup)
  /\ \A r \in Reqs : WF_vars(allow_Steps(r))

SpecLock == InitLive /\ [][Next]_vars /\ FairnessLock

\* request r is inside allow
InAllow(r) == pc[r] \in {"rlock", "lookup", "wlock", "create", "block", "check"}

\* request r is at a step that has to wait for a lock
Waits(r) == pc[r] \in {"rlock", "wlock", "block"}

\* C30: a request never waits for a lock while it holds one, and the eviction
\* task, which holds a shard lock while it waits for bucket locks, never waits
\* for a shard lock while it holds one, so no workers wait on each other in a
\* cycle; every admission check that has started returns its decision,
\* whatever the other requests, the eviction task and Stop do meanwhile.
C30_CheckReturns ==
  /\ [](\A r \in Reqs : Waits(r) => (ShardLocksOf(r) = {} /\ BucketLocksOf(r) = {}))
  /\ [](/\ Cardinality(ShardLocksOf(Cleaner)) <= 1
        /\ BucketLocksOf(Cleaner) = {}
        /\ cpc \in {"select", "shard", "exited"} => ShardLocksOf(Cleaner) = {})
  /\ \A r \in Reqs : InAllow(r) ~> (pc[r] = "checked")

\* Stop has been called; the eviction task holds the exclusive lock of a shard
\* and is about to re-check a bucket whose lock a check holds, while another
\* request waits for a lock of that shard
C30_Witness ==
  \E r1 \in Reqs : \E r2 \in Reqs \ {r1} :
    /\ pc[r1] = "check"
    /\ cpc = "delete" /\ si = Shard(r1) /\ smu[si].writer = Cleaner
    /\ di <= Len(toDelete) /\ toDelete[di] = key[r1]
    /\ MapLookup(buckets[si], key[r1]) = b[r1]
    /\ pc[r2] \in {"rlock", "wlock"} /\ Shard(r2) = si
    /\ stopCleanup

\* ---- shutdown of the limiter ---------------------------------------------------
\* The caller of Stop is scheduled as well: once cleanupDone is closed its
\* receive completes.
FairnessStop ==
  /\ FairnessLock
  /\ WF_vars(Stop_Wait)

SpecStop == InitLive /\ [][Next]_vars /\ FairnessStop

\* C31: a call of Stop that has closed stopCleanup returns, whatever scan is
\* in progress and whatever requests are being checked; cleanupDone is closed
\* once, by the cleanup goroutine as it leaves its loop on the stop signal with
\* no scan in progress, and the goroutine stays exited; after the signal a scan
\* starts only from a tick the ticker delivered.
C31_StopReturns ==
  /\ (spc = "wait") ~> (spc = "returned")
  /\ [][(cleanupDone' # cleanupDone) =>
          /\ ~cleanupDone /\ cleanupDone'
          /\ stopCleanup
          /\ cpc = "select" /\ cpc' = "exited"]_vars
  /\ [][cpc = "exited" => cpc' = "exited"]_vars
  /\ [][(stopCleanup /\ cpc = "select" /\ cpc' = "shard") => tickReady]_vars

\* Stop waits for the worker while a scan holds a shard lock and a request
\* holds the lock of a bucket
C31_Witness ==
  /\ spc = "wait"
  /\ ~cleanupDone
  /\ ShardLocksOf(Cleaner) # {}
  /\ \E r \in Reqs : pc[r] = "check"

\* ---- idleness --------------------------------------------------------------------
\* a check, admitted or rejected, leaves its time in lastCheck and lastUsed
RefreshOnCheck ==
  [][\A r \in Reqs :
       CheckStep(r) => /\ heap'[b[r]].lastUsed = now[r]
                       /\ heap'[b[r]].lastCheck = now[r]]_vars

\* C32: every check, admitted or rejected, sets the bucket's lastUsed and
\* lastCheck to the time of the check, and a bucket is not removed by a scan
\* when one of its completed checks was made at or after the scan's cutoff,
\* that is within maxIdleTime of the scan.
C32_CheckedKeyNotEvicted ==
  /\ RefreshOnCheck
  /\ [][\A id \in DOMAIN heap :
          (Mapped(id) /\ ~Mapped(id)') => \A r \in Checked(id) : now[r] < cutoff]_vars

\* ---- the limiter after Stop ------------------------------------------------------
\* C33: once Stop has returned, a check still refills, decides and debits by
\* the token-bucket rule, a request for an absent key still gets a fresh full
\* bucket, and no bucket, whether mapped before or inserted since, leaves its
\* shard.
C33_ChecksAfterStop ==
  /\ [][\A r \in Reqs :
          (StopReturned /\ CheckStep(r)) =>
            LET t == Refilled(heap[b[r]].tokens, now[r] - heap[b[r]].lastCheck, rate, capacity)
            IN /\ allowed'[r] = (t >= TokenUnit)
               /\ heap'[b[r]].tokens = IF t >= TokenUnit THEN t - TokenUnit ELSE t]_vars
  /\ [][\A r \in Reqs :
          (StopReturned /\ CreateStep(r) /\ key[r] \notin DOMAIN buckets[Shard(r)]) =>
            /\ heap'[b'[r]].tokens = capacity
            /\ buckets'[Shard(r)][key[r]] = b'[r]]_vars
  /\ [][StopReturned =>
          \A id \in DOMAIN heap' : (id \notin DOMAIN heap \/ Mapped(id)) => Mapped(id)']_vars

\* Stop has returned and the eviction task has exited; one request has since
\* been handed a bucket and holds its lock for its check, while the bucket is
\* idle past maxIdleTime by its lastUsed and still mapped
C33_Witness ==
  /\ spc = "returned"
  /\ cpc = "exited"
  /\ \E r \in Reqs :
       /\ pc[r] = "check"
       /\ Mapped(b[r])
       /\ clock - maxIdleTime > heap[b[r]].lastUsed

\* ---- the return of Protokol.Run --------------------------------------------------
\* caller c returns from Run through Stop in this step
RunReturns(c) == rpc[c] = "stopping" /\ rpc'[c] = "done"
\* the calls of Run that started the adapters and have returned
RunsReturned == {c \in Runners : rpc[c] = "done" /\ rret[c] # "ErrAlreadyRunning"}

\* C34: a Run that started the adapters returns only through Stop, after an
\* adapter's Start returned or after its context was cancelled; the step in
\* which it returns has called Stop on every adapter and Close on the backend
\* registry and leaves the instance not running and unlocked, so each such
\* return is matched by one Stop of every adapter and one Close; a Run that
\* checks the flag while no other call is between its own check and the end
\* of its Stop is not refused.
C34_RunReturnsStopped ==
  /\ [][\A c \in Runners :
          RunReturns(c) =>
            /\ rsel[c] \in {"err", "ctx"}
            /\ rsel[c] = "ctx" => ctxDone[c]
            /\ rsel[c] = "err" => \E a \in Adapters : gor[c][a] = "out"
            /\ \A a \in Adapters : nstop'[a] = nstop[a] + 1
            /\ nclose' = nclose + 1
            /\ ~running'
            /\ pmu' = NoOne]_vars
  /\ [](/\ nclose = Cardinality(RunsReturned)
        /\ \A a \in Adapters : nstop[a] = Cardinality(RunsReturned))
  /\ [][\A d \in Runners :
          (rpc[d] = "locked" /\ rpc'[d] # "locked"
             /\ \A e \in Runners \ {d} : ~HoldsRunning(e)) =>
            (rpc'[d] = "spawn" /\ rret'[d] # "ErrAlreadyRunning")]_vars

\* one Run returned because an adapter's Start returned, a later one because
\* its context was cancelled; neither was refused, the adapters were stopped
\* and the registry closed once for each, and the instance is not running
C34_Witness ==
  \E c \in Runners : \E d \in Runners \ {c} :
    /\ rpc[c] = "done" /\ rsel[c] = "err"
    /\ rpc[d] = "done" /\ rsel[d] = "ctx"
    /\ rret[c] # "ErrAlreadyRunning" /\ rret[d] # "ErrAlreadyRunning"
    /\ \A a \in Adapters : nstop[a] = 2
    /\ nclose = 2
    /\ ~running

\* ---- the auth interceptor --------------------------------------------------------
\* the first value of the header starts with the scheme and a space
StartsWithScheme ==
  LET v == ameta["Authorization"][1]
      n == Len(ascheme) + 1
  IN Len(v) >= n /\ SubSeq(v, 1, n - 1) = ascheme /\ v[n] = 32

\* C35: when the handler has returned, next.Handle was called only if
\* Validate was called and accepted; a request without a value under the
\* header got ErrMissingToken, one whose first value does not start with the
\* configured scheme and a space got ErrInvalidToken, both without a call of
\* Validate, one whose token the validator refused got ErrUnauthorized, and in
\* these three cases next.Handle was not called; otherwise it was called once
\* and its results were returned.
C35_ForwardsOnlyValidated ==
  apc = "returned" =>
    /\ ancalls # <<>> => (Len(avcalls) = 1 /\ avalid = "ok")
    /\ IF NoToken(ameta)
         THEN aret.err = "ErrMissingToken" /\ ancalls = <<>> /\ avcalls = <<>>
       ELSE IF ascheme # <<>> /\ ~StartsWithScheme
         THEN aret.err = "ErrInvalidToken" /\ ancalls = <<>> /\ avcalls = <<>>
       ELSE IF avalid = "err"
         THEN aret.err = "ErrUnauthorized" /\ ancalls = <<>> /\ Len(avcalls) = 1
       ELSE /\ Len(ancalls) = 1 /\ Len(avcalls) = 1
            /\ aret.err = (IF anext = "ok" THEN "nil" ELSE "backendErr")
            /\ aret.err \notin {"ErrMissingToken", "ErrInvalidToken", "ErrUnauthorized"}

\* the value "b t" under the scheme "B": the prefix differs in case, the
\* request was refused with ErrInvalidToken and neither the validator nor the
\* next handler was called
C35_Witness ==
  /\ apc = "returned"
  /\ ascheme = Bearer
  /\ ~NoToken(ameta)
  /\ ameta["Authorization"][1] = <<98, 32, 116>>
  /\ avalid = "ok"
  /\ aret.err = "ErrInvalidToken"
  /\ ancalls = <<>> /\ avcalls = <<>>

====
